---- MODULE Spec2Model ----
(***************************************************************************)
(* Alert lifecycle and notification throttling of the EV fleet backend:    *)
(* AlertService (deduplication cache over the alerts table),               *)
(* AlertStateManager (human-factors notification gate) and Broadcaster     *)
(* (vehicle-scoped WebSocket fan-out).                                     *)
(*                                                                         *)
(* Times are Date.now() milliseconds.  A Map is a function whose DOMAIN is *)
(* the set of keys present; a nullable column is a set with at most one    *)
(* element.                                                                *)
(***************************************************************************)
EXTENDS Integers, Sequences, FiniteSets, TLC

VARIABLES
    now,                \* the wall clock: Date.now() and the store's NOW()
    vehicleAlertStates, \* AlertStateManager: Map<vehicle_id, Map<alert_type, state>>
    lastVisualUpdate,   \* AlertStateManager: Map<"vehicle-type", timestamp>
    escalatedVehicles,  \* AlertStateManager: Set<vehicle_id>
    result,             \* what the most recent processAlert call returned
    newlyCritical,      \* what the most recent isNewlyCriticalVehicle call returned
    alerts,             \* the alerts table, in insertion order (alert_id = index)
    activeAlertsCache,  \* AlertService: Map<"vehicle_type", {alertId, createdAt}>
    stats,              \* AlertService: cacheHits, cacheMisses, alertsCreated, alertsResolved
    pc,                 \* per handler: where the async call chain is suspended
    req,                \* per handler: the (vehicle, rule) it was started for
    rows,               \* per handler: the answer of its last store query
    io,                 \* Broadcaster.io: TRUE once init(io) has run
    lastBroadcastTimes, \* Broadcaster: Map<vehicle_id, last telemetry relay time>
    subscribers,        \* subscription registry: vehicle_id -> socket ids
    sent,               \* the socket emissions made by the most recent step
    ret,                \* how the call that completed in the most recent step ended
    summaryInterval,    \* Broadcaster.summaryInterval: the handle held, {} for null
    timers,             \* the interval timers that are armed
    lastSummary,        \* Broadcaster.lastSummary: {} for null
    tickPc,             \* per timer callback in flight: where it is suspended
    tickSummary,        \* per timer callback in flight: what getAlertSummary answered
    emittedSummary,     \* the data of the last alert_summary the clients were sent
    ingest,             \* the ingestTelemetry call in flight and its two store writes
    evaluation,         \* the alertEvaluator.evaluate call in flight
    feed                \* the telemetry samples that have not arrived yet

vars == <<now, vehicleAlertStates, lastVisualUpdate, escalatedVehicles, result,
          newlyCritical, alerts, activeAlertsCache, stats, pc, req, rows, io,
          lastBroadcastTimes, subscribers, sent, ret,
          summaryInterval, timers, lastSummary, tickPc, tickSummary,
          emittedSummary, ingest, evaluation, feed>>

managerVars == <<vehicleAlertStates, lastVisualUpdate, escalatedVehicles, result,
                 newlyCritical>>
serviceVars == <<alerts, activeAlertsCache, stats, pc, req, rows>>
broadcasterVars == <<io, lastBroadcastTimes, subscribers, sent>>
summaryVars == <<summaryInterval, timers, lastSummary, tickPc, tickSummary,
                 emittedSummary>>
telemetryVars == <<ingest, evaluation, feed>>

-----------------------------------------------------------------------------
(* Program constants *)

VISUAL_UPDATE_THROTTLE_MS == 2000
QUIET_PERIOD_MS == 30000
PERSISTENT_EVERY == 10
CACHE_TTL_MS == 300000
DEDUP_WINDOW_MS == 300000
THROTTLE_MS == 500
SUMMARY_TYPE_LIMIT == 10
EXPIRY_TIME == 3600000
DURATION_CAP_MS == 300000
SPIKE_WINDOW_MS == 60000

\* colorIntensity is held as a multiple of 1/IntensityScale: the duration
\* bonus 0.4 * durationMs / 300000 is then durationMs itself
IntensityScale == 750000

(* Bounds of the model *)

Epoch == 7200000        \* the clock value at start-up
TickMs == 1000          \* granularity of the clock in the notification model
MaxTicks == 36          \* the notification model runs for MaxTicks * TickMs
MaxCount == 12          \* occurrences recorded per key in the notification model
MaxCadenceCount == 31   \* occurrences in the unchanged-severity run
MaxCadenceTicks == 70   \* the unchanged-severity run lasts MaxCadenceTicks * TickMs

MinuteMs == 60000       \* granularity of the clock in the alert service model
MaxMinutes == 6         \* the alert service model runs for MaxMinutes minutes
NumHandlers == 2        \* telemetry handlers in flight at once
MaxAlerts == 3          \* rows the alerts table can take
MaxLookups == 2         \* getExistingAlert calls made
NumTicks == 2           \* summary timer callbacks in flight at once
MaxRelayMs == 1500      \* the relay model runs for MaxRelayMs milliseconds
MaxTimers == 3          \* interval handles setInterval can hand out
HalfHourMs == 1800000   \* granularity of the clock in the escalation model
MaxHalfHours == 3       \* the escalation model runs for MaxHalfHours half hours
MaxSamples == 2         \* samples that arrive in the ingestion model
MaxImpactMs == 302000   \* the visual impact run lasts MaxImpactMs milliseconds
MaxImpactCount == 12    \* occurrences recorded in the visual impact run

Vehicles == {"EV1", "EV2"}
Severities == {"INFO", "WARNING", "CRITICAL"}

-----------------------------------------------------------------------------
(* AlertStateManager *)

StateKey(vehicleId, alertType) == <<vehicleId, alertType>>

\* vehicleStates.get(alert_type) of vehicleAlertStates.get(vehicle_id): {} when absent
ExistingState(vehicleId, alertType) ==
    IF vehicleId \in DOMAIN vehicleAlertStates
       /\ alertType \in DOMAIN vehicleAlertStates[vehicleId]
    THEN {vehicleAlertStates[vehicleId][alertType]}
    ELSE {}

SeverityRank(severity) ==
    CASE severity = "INFO" -> 1
      [] severity = "WARNING" -> 2
      [] severity = "CRITICAL" -> 3

\* Variant: the event is compared with the severity last notified
AnalyzeAgainstNotified(existingState, newSeverity) ==
    IF existingState = {} THEN "new_alert"
    ELSE LET old == CHOOSE s \in existingState : TRUE
             shown == IF old.last_notified_severity = {} THEN old.severity
                      ELSE CHOOSE x \in old.last_notified_severity : TRUE
         IN
         IF SeverityRank(newSeverity) > SeverityRank(shown)
             THEN "severity_escalation"
         ELSE IF SeverityRank(newSeverity) < SeverityRank(shown)
             THEN "severity_deescalation"
         ELSE IF old.count >= PERSISTENT_EVERY /\ old.count % PERSISTENT_EVERY = 0
             THEN "persistent_issue"
         ELSE "repeated_alert"

AnalyzeStateChange(existingState, newSeverity) ==
    IF existingState = {} THEN "new_alert"
    ELSE LET old == CHOOSE s \in existingState : TRUE IN
         IF SeverityRank(newSeverity) > SeverityRank(old.severity)
             THEN "severity_escalation"
         ELSE IF SeverityRank(newSeverity) < SeverityRank(old.severity)
             THEN "severity_deescalation"
         ELSE IF old.count >= PERSISTENT_EVERY /\ old.count % PERSISTENT_EVERY = 0
             THEN "persistent_issue"
         ELSE "repeated_alert"

\* lastVisualUpdate.get(key) || 0
LastVisualUpdateOf(vehicleId, alertType) ==
    IF StateKey(vehicleId, alertType) \in DOMAIN lastVisualUpdate
    THEN lastVisualUpdate[StateKey(vehicleId, alertType)]
    ELSE 0

\* Variant: the throttle check is missing
ShouldTriggerNoThrottle(vehicleId, alertType, stateChange, timestamp) ==
    LET lastUpdate == LastVisualUpdateOf(vehicleId, alertType) IN
    IF stateChange \in {"new_alert", "severity_escalation"} THEN TRUE
    ELSE IF stateChange = "persistent_issue" THEN TRUE
    ELSE IF stateChange = "repeated_alert" THEN timestamp - lastUpdate > QUIET_PERIOD_MS
    ELSE FALSE

\* Variant: severity_escalation is left out of the always-notify list
ShouldTriggerOnlyNew(vehicleId, alertType, stateChange, timestamp) ==
    LET lastUpdate == LastVisualUpdateOf(vehicleId, alertType) IN
    IF timestamp - lastUpdate < VISUAL_UPDATE_THROTTLE_MS THEN FALSE
    ELSE IF stateChange \in {"new_alert"} THEN TRUE
    ELSE IF stateChange = "persistent_issue" THEN TRUE
    ELSE IF stateChange = "repeated_alert" THEN timestamp - lastUpdate > QUIET_PERIOD_MS
    ELSE FALSE

\* Variant: the quiet period is compared with >= instead of >
ShouldTriggerQuietInclusive(vehicleId, alertType, stateChange, timestamp) ==
    LET lastUpdate == LastVisualUpdateOf(vehicleId, alertType) IN
    IF timestamp - lastUpdate < VISUAL_UPDATE_THROTTLE_MS THEN FALSE
    ELSE IF stateChange \in {"new_alert", "severity_escalation"} THEN TRUE
    ELSE IF stateChange = "persistent_issue" THEN TRUE
    ELSE IF stateChange = "repeated_alert" THEN timestamp - lastUpdate >= QUIET_PERIOD_MS
    ELSE FALSE

\* Variant: every severity change is in the always-notify list
ShouldTriggerAnyChange(vehicleId, alertType, stateChange, timestamp) ==
    LET lastUpdate == LastVisualUpdateOf(vehicleId, alertType) IN
    IF timestamp - lastUpdate < VISUAL_UPDATE_THROTTLE_MS THEN FALSE
    ELSE IF stateChange \in {"new_alert", "severity_escalation",
                             "severity_deescalation"} THEN TRUE
    ELSE IF stateChange = "persistent_issue" THEN TRUE
    ELSE IF stateChange = "repeated_alert" THEN timestamp - lastUpdate > QUIET_PERIOD_MS
    ELSE FALSE

ShouldTriggerVisualNotification(vehicleId, alertType, stateChange, timestamp) ==
    LET lastUpdate == LastVisualUpdateOf(vehicleId, alertType) IN
    IF timestamp - lastUpdate < VISUAL_UPDATE_THROTTLE_MS THEN FALSE
    ELSE IF stateChange \in {"new_alert", "severity_escalation"} THEN TRUE
    ELSE IF stateChange = "persistent_issue" THEN TRUE
    ELSE IF stateChange = "repeated_alert" THEN timestamp - lastUpdate > QUIET_PERIOD_MS
    ELSE FALSE

\* Map.set on a Map modelled as a function
MapSet(map, key, value) ==
    [k \in DOMAIN map \cup {key} |-> IF k = key THEN value ELSE map[k]]

MapDelete(map, key) == [k \in DOMAIN map \ {key} |-> map[k]]

\* The state processAlert stores for the key, given whether it notifies
NewState(existingState, severity, shouldNotify, timestamp) ==
    LET old == CHOOSE s \in existingState : TRUE IN
    [severity |-> severity,
     first_seen |-> IF existingState = {} THEN timestamp ELSE old.first_seen,
     last_updated |-> timestamp,
     count |-> (IF existingState = {} THEN 0 ELSE old.count) + 1,
     last_notified_severity |->
         IF shouldNotify THEN {severity}
         ELSE IF existingState = {} THEN {} ELSE old.last_notified_severity]

Min(a, b) == IF a < b THEN a ELSE b

\* { INFO: 0.3, WARNING: 0.6, CRITICAL: 1.0 }[severity]
BaseIntensity(severity) ==
    CASE severity = "INFO" -> (3 * IntensityScale) \div 10
      [] severity = "WARNING" -> (6 * IntensityScale) \div 10
      [] severity = "CRITICAL" -> IntensityScale

\* Math.min(durationMs / 300000, 1) * 0.4: the bonus grows by
\* 0.4 / 300000 a millisecond up to the cap
DurationBonus(durationMs) ==
    Min(durationMs, DURATION_CAP_MS)
        * ((4 * IntensityScale) \div (10 * DURATION_CAP_MS))

\* getColorIntensity(): Math.min(base + Math.min(durationMs / 300000, 1) * 0.4, 1.0)
ColorIntensity(severity, durationMs) ==
    Min(BaseIntensity(severity)
            + DurationBonus(durationMs),
        IntensityScale)

\* getBadgeType()
BadgeType(stateChange) ==
    CASE stateChange = "severity_escalation" -> "escalation"
      [] stateChange = "new_alert" -> "new"
      [] stateChange = "persistent_issue" -> "persistent"
      [] OTHER -> "existing"

\* Variant: a long-lived key is persistent before it is spiking
TrendPersistentFirst(count, durationMs) ==
    IF count > 10 THEN "persistent"
    ELSE IF count > 5 /\ durationMs < SPIKE_WINDOW_MS THEN "spiking"
    ELSE IF durationMs > DURATION_CAP_MS THEN "lingering"
    ELSE "stable"

\* getTrend()
Trend(count, durationMs) ==
    IF count > 5 /\ durationMs < SPIKE_WINDOW_MS THEN "spiking"
    ELSE IF count > 10 THEN "persistent"
    ELSE IF durationMs > DURATION_CAP_MS THEN "lingering"
    ELSE "stable"

\* calculateVisualImpact(vehicleId, alertType, state, stateChange) run when
\* Date.now() is timestamp
CalculateVisualImpact(state, stateChange, timestamp) ==
    LET durationMs == timestamp - state.first_seen IN
    [colorIntensity |-> ColorIntensity(state.severity, durationMs),
     badgeType |-> BadgeType(stateChange),
     trend |-> Trend(state.count, durationMs),
     isEscalated |-> stateChange = "severity_escalation",
     isNewCritical |-> state.severity = "CRITICAL" /\ stateChange = "new_alert"]

\* processAlert({vehicle_id, alert_type, severity}) run when Date.now() is
\* timestamp: everything it changes
ProcessAlert(vehicleId, alertType, severity, timestamp) ==
    LET existingState == ExistingState(vehicleId, alertType)
        stateChange == AnalyzeStateChange(existingState, severity)
        shouldNotify ==
            ShouldTriggerVisualNotification(vehicleId, alertType, stateChange,
                                            timestamp)
        newState == NewState(existingState, severity, shouldNotify, timestamp)
        vehicleStates == IF vehicleId \in DOMAIN vehicleAlertStates
                         THEN vehicleAlertStates[vehicleId]
                         ELSE << >>
    IN  /\ vehicleAlertStates' =
              MapSet(vehicleAlertStates, vehicleId,
                     MapSet(vehicleStates, alertType, newState))
        /\ lastVisualUpdate' =
              IF shouldNotify
              THEN MapSet(lastVisualUpdate, StateKey(vehicleId, alertType), timestamp)
              ELSE lastVisualUpdate
        /\ result' = [vehicle_id |-> vehicleId,
                      alert_type |-> alertType,
                      severity |-> severity,
                      timestamp |-> timestamp,
                      shouldNotify |-> shouldNotify,
                      stateChange |-> stateChange,
                      visualImpact |->
                          CalculateVisualImpact(newState, stateChange, timestamp),
                      alertCount |-> newState.count]
        /\ UNCHANGED <<escalatedVehicles, newlyCritical>>

\* alerts.some(a => a.severity === 'CRITICAL' && !a.resolved_at)
HasCritical(alertList) ==
    \E i \in 1..Len(alertList) :
        alertList[i].severity = "CRITICAL" /\ alertList[i].resolved_at = {}

\* Variant: a vehicle already escalated is reported again
IsNewlyCriticalEveryTime(vehicleId, alertList) ==
    IF HasCritical(alertList)
    THEN /\ escalatedVehicles' = escalatedVehicles \cup {vehicleId}
         /\ newlyCritical' = {TRUE}
    ELSE /\ newlyCritical' = {FALSE}
         /\ UNCHANGED escalatedVehicles

\* isNewlyCriticalVehicle(vehicleId, alerts): what it changes and returns
IsNewlyCritical(vehicleId, alertList) ==
    LET wasEscalated == vehicleId \in escalatedVehicles
        hasCritical == HasCritical(alertList)
    IN  IF hasCritical /\ ~wasEscalated
        THEN /\ escalatedVehicles' = escalatedVehicles \cup {vehicleId}
             /\ newlyCritical' = {TRUE}
        ELSE /\ newlyCritical' = {FALSE}
             /\ UNCHANGED escalatedVehicles

\* now - state.last_updated > EXPIRY_TIME
StateExpired(state) == now - state.last_updated > EXPIRY_TIME

\* The states of a vehicle that cleanup() leaves in its map
UnexpiredStates(vehicleId) ==
    [t \in {u \in DOMAIN vehicleAlertStates[vehicleId] :
                ~StateExpired(vehicleAlertStates[vehicleId][u])}
        |-> vehicleAlertStates[vehicleId][t]]

\* The vehicles whose map cleanup() finds empty after the deletions
SweptVehicles ==
    {v \in DOMAIN vehicleAlertStates : DOMAIN UnexpiredStates(v) = {}}

\* No call completed in the step
NoReturn == [op |-> "", status |-> "", value |-> {}]

\* The call op resolved with value (a set of alert ids: {} for nothing)
Returned(op, value) == [op |-> op, status |-> "returned", value |-> value]

\* The call op rejected: the error went to its caller
Rejected(op) == [op |-> op, status |-> "rejected", value |-> {}]

\* A call of isNewlyCriticalVehicle(vehicleId, alerts)
IsNewlyCriticalVehicle(vehicleId, alertList) ==
    /\ IsNewlyCritical(vehicleId, alertList)
    /\ sent' = << >>
    /\ ret' = NoReturn
    /\ UNCHANGED <<now, vehicleAlertStates, lastVisualUpdate, result, serviceVars,
                   io, lastBroadcastTimes, subscribers, summaryVars, telemetryVars>>

\* cleanup(): the hourly expiry of notification states
Cleanup ==
    /\ vehicleAlertStates' =
          [v \in DOMAIN vehicleAlertStates \ SweptVehicles |-> UnexpiredStates(v)]
    /\ escalatedVehicles' = escalatedVehicles \ SweptVehicles
    /\ sent' = << >>
    /\ ret' = Returned("cleanup", {})
    /\ UNCHANGED <<now, lastVisualUpdate, result, newlyCritical, serviceVars,
                   io, lastBroadcastTimes, subscribers, summaryVars, telemetryVars>>

NoResult == [vehicle_id |-> "", alert_type |-> "", severity |-> "",
             timestamp |-> 0, shouldNotify |-> FALSE, stateChange |-> "",
             visualImpact |-> [colorIntensity |-> 0, badgeType |-> "", trend |-> "",
                               isEscalated |-> FALSE, isNewCritical |-> FALSE],
             alertCount |-> 0]

-----------------------------------------------------------------------------
(* Subscription registry and Broadcaster *)

Sockets == {"s1", "s2"}

\* subscriptionManager.getSubscribers(vehicleId): the socket ids registered for
\* the vehicle, as an array without repetition
RECURSIVE ArrayOf(_)
ArrayOf(set) ==
    IF set = {} THEN << >>
    ELSE LET x == CHOOSE y \in set : TRUE IN <<x>> \o ArrayOf(set \ {x})

GetSubscribers(vehicleId) == ArrayOf(subscribers[vehicleId])

\* io.to(socketId).emit(event, payload) for each element of an array
RECURSIVE EmitToEach(_, _, _)
EmitToEach(socketIds, event, alertId) ==
    IF socketIds = << >> THEN << >>
    ELSE <<[to |-> Head(socketIds), event |-> event, alert_id |-> alertId]>>
         \o EmitToEach(Tail(socketIds), event, alertId)

\* The same forEach when the emit to socket failing throws: the sockets before
\* it in the array have been sent the event, the exception ends the loop
RECURSIVE EmitUntilThrow(_, _, _, _)
EmitUntilThrow(socketIds, event, alertId, failing) ==
    IF socketIds = << >> \/ Head(socketIds) = failing THEN << >>
    ELSE <<[to |-> Head(socketIds), event |-> event, alert_id |-> alertId]>>
         \o EmitUntilThrow(Tail(socketIds), event, alertId, failing)

\* Variant: io.emit to every connected client instead of the subscribers
BroadcastAlertGlobal(alertId, vehicleId) ==
    IF io
    THEN <<[to |-> "*", event |-> "alert_state_update", alert_id |-> alertId]>>
    ELSE << >>

\* Variant: the alert goes out only when the telemetry relay's window is open
BroadcastAlertThrottled(alertId, vehicleId) ==
    IF io /\ ~(/\ vehicleId \in DOMAIN lastBroadcastTimes
               /\ now - lastBroadcastTimes[vehicleId] < THROTTLE_MS)
    THEN EmitToEach(GetSubscribers(vehicleId), "alert_state_update", alertId)
    ELSE << >>

\* broadcastAlert(alert, visualImpact): the emissions it makes
BroadcastAlert(alertId, vehicleId) ==
    IF io
    THEN EmitToEach(GetSubscribers(vehicleId), "alert_state_update", alertId)
    ELSE << >>

\* The handles setInterval can hand out
TimerIds == 1..MaxTimers

\* Variant: clearInterval leaves the timer armed
ClearIntervalKeeps(handle) == timers

\* clearInterval(handle): the timers still armed
ClearInterval(handle) == timers \ handle

\* The body of startSummaryBroadcasts: the interval held is cleared, a new one
\* is armed and its handle kept; setInterval hands out a handle that is not
\* the one of a timer created before and still held
ArmSummaryInterval ==
    LET armed == IF summaryInterval # {}
                 THEN ClearInterval(summaryInterval)
                 ELSE timers
        free == TimerIds \ (timers \cup summaryInterval)
    IN  /\ free # {}
        /\ LET handle == CHOOSE i \in free : \A j \in free : i <= j IN
               /\ timers' = armed \cup {handle}
               /\ summaryInterval' = {handle}

\* Broadcaster.init(io)
BroadcasterInit ==
    /\ io' = TRUE
    /\ ArmSummaryInterval
    /\ sent' = << >>
    /\ ret' = NoReturn
    /\ UNCHANGED <<now, managerVars, serviceVars, lastBroadcastTimes, subscribers,
                   lastSummary, tickPc, tickSummary, emittedSummary, telemetryVars>>

\* startSummaryBroadcasts() called on its own
StartSummaryBroadcasts ==
    /\ ArmSummaryInterval
    /\ sent' = << >>
    /\ ret' = NoReturn
    /\ UNCHANGED <<now, managerVars, serviceVars, io, lastBroadcastTimes,
                   subscribers, lastSummary, tickPc, tickSummary, emittedSummary,
                   telemetryVars>>

\* stopSummaryBroadcasts()
StopSummaryBroadcasts ==
    /\ IF summaryInterval # {}
       THEN /\ timers' = ClearInterval(summaryInterval)
            /\ summaryInterval' = {}
       ELSE UNCHANGED <<timers, summaryInterval>>
    /\ sent' = << >>
    /\ ret' = Returned("stopSummaryBroadcasts", {})
    /\ UNCHANGED <<now, managerVars, serviceVars, io, lastBroadcastTimes,
                   subscribers, lastSummary, tickPc, tickSummary, emittedSummary,
                   telemetryVars>>

\* lastBroadcastTimes.get(vehicleId) || 0
LastBroadcastTimeOf(vehicleId) ==
    IF vehicleId \in DOMAIN lastBroadcastTimes
    THEN lastBroadcastTimes[vehicleId]
    ELSE 0

\* Variant: a sample exactly THROTTLE_MS after the last relayed one is dropped
RelayThrottledInclusive(vehicleId) ==
    now - LastBroadcastTimeOf(vehicleId) <= THROTTLE_MS

\* now - lastTime < this.THROTTLE_MS
RelayThrottled(vehicleId) ==
    now - LastBroadcastTimeOf(vehicleId) < THROTTLE_MS

\* broadcastTelemetry(vehicleId, telemetry): what it emits and records
RelayTelemetry(vehicleId) ==
    LET forward == /\ io
                   /\ ~RelayThrottled(vehicleId)
                   /\ GetSubscribers(vehicleId) # << >>
    IN  /\ sent' = IF forward
                   THEN EmitToEach(GetSubscribers(vehicleId), "telemetry_update", 0)
                   ELSE << >>
        /\ lastBroadcastTimes' = IF forward
                                 THEN MapSet(lastBroadcastTimes, vehicleId, now)
                                 ELSE lastBroadcastTimes

\* A call of broadcastTelemetry(vehicleId, telemetry)
BroadcastTelemetry(vehicleId) ==
    /\ RelayTelemetry(vehicleId)
    /\ ret' = NoReturn
    /\ UNCHANGED <<now, managerVars, serviceVars, io, subscribers, summaryVars,
                   telemetryVars>>

\* A client subscribes to a vehicle
Subscribe(vehicleId, socketId) ==
    /\ socketId \notin subscribers[vehicleId]
    /\ subscribers' = [subscribers EXCEPT ![vehicleId] = @ \cup {socketId}]
    /\ sent' = << >>
    /\ ret' = NoReturn
    /\ UNCHANGED <<now, managerVars, serviceVars, io, lastBroadcastTimes, summaryVars, telemetryVars>>

\* A client unsubscribes or disconnects
Unsubscribe(vehicleId, socketId) ==
    /\ socketId \in subscribers[vehicleId]
    /\ subscribers' = [subscribers EXCEPT ![vehicleId] = @ \ {socketId}]
    /\ sent' = << >>
    /\ ret' = NoReturn
    /\ UNCHANGED <<now, managerVars, serviceVars, io, lastBroadcastTimes, summaryVars, telemetryVars>>

-----------------------------------------------------------------------------
(* The alerts table *)

\* SELECT * FROM alerts WHERE vehicle_id = $1 AND alert_type = $2
\*   AND resolved_at IS NULL AND created_at >= NOW() - INTERVAL '5 minutes'
FindUnresolved(vehicleId, alertType) ==
    {id \in DOMAIN alerts :
        /\ alerts[id].vehicle_id = vehicleId
        /\ alerts[id].alert_type = alertType
        /\ alerts[id].resolved_at = {}
        /\ alerts[id].created_at >= now - DEDUP_WINDOW_MS}

\* The rows UPDATE alerts SET resolved_at = NOW() ... AND resolved_at IS NULL hits
Unresolved(vehicleId, alertType) ==
    {id \in DOMAIN alerts :
        /\ alerts[id].vehicle_id = vehicleId
        /\ alerts[id].alert_type = alertType
        /\ alerts[id].resolved_at = {}}

\* INSERT INTO alerts (...) VALUES (...) RETURNING *: the table has no
\* uniqueness constraint, so the insert always succeeds
InsertAlert(vehicleId, alertType, severity) ==
    Append(alerts, [vehicle_id |-> vehicleId,
                    alert_type |-> alertType,
                    severity |-> severity,
                    created_at |-> now,
                    resolved_at |-> {}])

-----------------------------------------------------------------------------
(* AlertService *)

AlertTypes == {"low_battery"}

\* The severity the rule of an alert type carries
RuleSeverity(alertType) ==
    CASE alertType = "low_battery" -> "WARNING"
      [] alertType = "critical_battery" -> "CRITICAL"
      [] alertType = "high_temperature" -> "CRITICAL"
      [] alertType = "abnormal_voltage" -> "WARNING"

Handlers == 1..NumHandlers

\* The callbacks of the summary interval that can be suspended at once
Ticks == 1..NumTicks

\* A handler that is not running holds nothing
NoRequest == [op |-> "", vehicle_id |-> "", alert_type |-> ""]

GetCacheKey(vehicleId, alertType) == <<vehicleId, alertType>>

\* Variant: an entry exactly CACHE_TTL_MS old still counts
CacheHitInclusive(vehicleId, alertType) ==
    /\ GetCacheKey(vehicleId, alertType) \in DOMAIN activeAlertsCache
    /\ now - activeAlertsCache[GetCacheKey(vehicleId, alertType)].createdAt
          <= CACHE_TTL_MS

\* getCachedAlert finds an entry within its TTL
CacheHit(vehicleId, alertType) ==
    /\ GetCacheKey(vehicleId, alertType) \in DOMAIN activeAlertsCache
    /\ now - activeAlertsCache[GetCacheKey(vehicleId, alertType)].createdAt
          < CACHE_TTL_MS

\* The cache after getCachedAlert: an expired entry is deleted
CacheAfterGet(vehicleId, alertType) ==
    IF /\ GetCacheKey(vehicleId, alertType) \in DOMAIN activeAlertsCache
       /\ ~CacheHit(vehicleId, alertType)
    THEN MapDelete(activeAlertsCache, GetCacheKey(vehicleId, alertType))
    ELSE activeAlertsCache

\* Variant: the row found is not remembered
SkipCachedAlert(vehicleId, alertType, alertId) == activeAlertsCache

SetCachedAlert(vehicleId, alertType, alertId) ==
    MapSet(activeAlertsCache, GetCacheKey(vehicleId, alertType),
           [alertId |-> alertId, createdAt |-> now])

\* Variant: the resolution empties the whole cache
ClearCachedAlerts(vehicleId, alertType) == << >>

\* Variant: the cache entry survives the resolution
KeepCachedAlert(vehicleId, alertType) == activeAlertsCache

RemoveCachedAlert(vehicleId, alertType) ==
    MapDelete(activeAlertsCache, GetCacheKey(vehicleId, alertType))

\* getExistingAlert(vehicleId, alertType) up to its store query (answered from
\* the cache on a hit)
GetExistingAlertStart(p, vehicleId, alertType) ==
    /\ pc[p] = "idle"
    /\ IF CacheHit(vehicleId, alertType)
       THEN /\ stats' = [stats EXCEPT !.cacheHits = @ + 1]
            /\ ret' = Returned("getExistingAlert",
                  {activeAlertsCache[GetCacheKey(vehicleId, alertType)].alertId})
            /\ UNCHANGED <<activeAlertsCache, pc, req>>
       ELSE /\ stats' = [stats EXCEPT !.cacheMisses = @ + 1]
            /\ ret' = NoReturn
            /\ activeAlertsCache' = CacheAfterGet(vehicleId, alertType)
            /\ req' = [req EXCEPT ![p] = [op |-> "getExistingAlert",
                                          vehicle_id |-> vehicleId,
                                          alert_type |-> alertType]]
            /\ pc' = [pc EXCEPT ![p] = "select"]
    /\ UNCHANGED rows
    /\ sent' = << >>
    /\ UNCHANGED <<now, managerVars, alerts, io, lastBroadcastTimes, subscribers,
                   summaryVars>>

\* A handler starts on a sample that violates the rule of alertType
GetExistingAlertCall(p, vehicleId, alertType) ==
    /\ stats.cacheHits + stats.cacheMisses < MaxLookups
    /\ GetExistingAlertStart(p, vehicleId, alertType)
    /\ UNCHANGED telemetryVars

\* The store runs the SELECT ... LIMIT 1 of getExistingAlert
StoreSelect(p) ==
    /\ pc[p] = "select"
    /\ LET found == FindUnresolved(req[p].vehicle_id, req[p].alert_type) IN
       \/ /\ found = {}
          /\ rows' = [rows EXCEPT ![p] = {}]
       \/ \E id \in found : rows' = [rows EXCEPT ![p] = {id}]
    /\ pc' = [pc EXCEPT ![p] = "selected"]
    /\ sent' = << >>
    /\ ret' = NoReturn
    /\ UNCHANGED <<now, managerVars, alerts, activeAlertsCache, stats, req,
                   io, lastBroadcastTimes, subscribers, summaryVars, telemetryVars>>

\* getExistingAlert resumes with the rows; when it returns nothing the handler
\* calls createAlert, which sends its INSERT
GetExistingAlertReturn(p) ==
    /\ pc[p] = "selected"
    /\ IF rows[p] # {}
       THEN /\ activeAlertsCache' =
                  SetCachedAlert(req[p].vehicle_id, req[p].alert_type,
                                 CHOOSE id \in rows[p] : TRUE)
            /\ pc' = [pc EXCEPT ![p] = "idle"]
            /\ req' = [req EXCEPT ![p] = NoRequest]
       ELSE /\ pc' = [pc EXCEPT ![p] = "insert"]
            /\ req' = [req EXCEPT ![p].op = "createAlert"]
            /\ UNCHANGED activeAlertsCache
    /\ rows' = [rows EXCEPT ![p] = {}]
    /\ ret' = Returned("getExistingAlert", rows[p])
    /\ sent' = << >>
    /\ UNCHANGED <<now, managerVars, alerts, stats,
                   io, lastBroadcastTimes, subscribers, summaryVars, telemetryVars>>

\* The store runs the INSERT of createAlert
StoreInsert(p) ==
    /\ pc[p] = "insert"
    /\ Len(alerts) < MaxAlerts
    /\ alerts' = InsertAlert(req[p].vehicle_id, req[p].alert_type,
                             RuleSeverity(req[p].alert_type))
    /\ rows' = [rows EXCEPT ![p] = {Len(alerts) + 1}]
    /\ pc' = [pc EXCEPT ![p] = "inserted"]
    /\ sent' = << >>
    /\ ret' = NoReturn
    /\ UNCHANGED <<now, managerVars, activeAlertsCache, stats, req,
                   io, lastBroadcastTimes, subscribers, summaryVars, telemetryVars>>

\* createAlert resumes with the inserted row: state manager, cache, counter,
\* broadcast
CreateAlertReturn(p) ==
    /\ pc[p] = "inserted"
    /\ LET alertId == CHOOSE id \in rows[p] : TRUE IN
       /\ ProcessAlert(req[p].vehicle_id, req[p].alert_type,
                       RuleSeverity(req[p].alert_type), now)
       /\ activeAlertsCache' =
             SetCachedAlert(req[p].vehicle_id, req[p].alert_type, alertId)
       /\ stats' = [stats EXCEPT !.alertsCreated = @ + 1]
       /\ sent' = IF result'.shouldNotify
                  THEN BroadcastAlert(alertId, req[p].vehicle_id)
                  ELSE << >>
    /\ pc' = [pc EXCEPT ![p] = "idle"]
    /\ req' = [req EXCEPT ![p] = NoRequest]
    /\ rows' = [rows EXCEPT ![p] = {}]
    /\ ret' = Returned("createAlert", rows[p])
    /\ UNCHANGED <<now, alerts, io, lastBroadcastTimes, subscribers, summaryVars, telemetryVars>>

\* resolveAlert(vehicleId, alertType) sends its UPDATE
ResolveAlertStart(p, vehicleId, alertType) ==
    /\ pc[p] = "idle"
    /\ req' = [req EXCEPT ![p] = [op |-> "resolveAlert",
                                  vehicle_id |-> vehicleId,
                                  alert_type |-> alertType]]
    /\ rows' = [rows EXCEPT ![p] = {}]
    /\ pc' = [pc EXCEPT ![p] = "update"]
    /\ sent' = << >>
    /\ ret' = NoReturn
    /\ UNCHANGED <<now, managerVars, alerts, activeAlertsCache, stats,
                   io, lastBroadcastTimes, subscribers, summaryVars>>

\* A handler starts on a sample that no longer violates the rule of alertType
ResolveAlertCall(p, vehicleId, alertType) ==
    /\ ResolveAlertStart(p, vehicleId, alertType)
    /\ UNCHANGED telemetryVars

\* The store runs the UPDATE of resolveAlert; rows[p] are the rows it changed
StoreUpdate(p) ==
    /\ pc[p] = "update"
    /\ LET hit == Unresolved(req[p].vehicle_id, req[p].alert_type) IN
       /\ alerts' = [id \in DOMAIN alerts |->
                        IF id \in hit
                        THEN [alerts[id] EXCEPT !.resolved_at = {now}]
                        ELSE alerts[id]]
       /\ rows' = [rows EXCEPT ![p] = hit]
    /\ pc' = [pc EXCEPT ![p] = "updated"]
    /\ sent' = << >>
    /\ ret' = NoReturn
    /\ UNCHANGED <<now, managerVars, activeAlertsCache, stats, req,
                   io, lastBroadcastTimes, subscribers, summaryVars, telemetryVars>>

\* Variant: the resolution also drops the notification states of the vehicle
ResolveAlertReturnForgets(p) ==
    /\ pc[p] = "updated"
    /\ activeAlertsCache' = RemoveCachedAlert(req[p].vehicle_id, req[p].alert_type)
    /\ stats' = IF Cardinality(rows[p]) > 0
                THEN [stats EXCEPT !.alertsResolved = @ + 1]
                ELSE stats
    /\ vehicleAlertStates' = MapDelete(vehicleAlertStates, req[p].vehicle_id)
    /\ pc' = [pc EXCEPT ![p] = "idle"]
    /\ req' = [req EXCEPT ![p] = NoRequest]
    /\ rows' = [rows EXCEPT ![p] = {}]
    /\ ret' = Returned("resolveAlert", {})
    /\ sent' = << >>
    /\ UNCHANGED <<now, lastVisualUpdate, escalatedVehicles, result, newlyCritical,
                   alerts, io, lastBroadcastTimes, subscribers, summaryVars,
                   telemetryVars>>

\* resolveAlert resumes with the row count
ResolveAlertReturn(p) ==
    /\ pc[p] = "updated"
    /\ activeAlertsCache' = RemoveCachedAlert(req[p].vehicle_id, req[p].alert_type)
    /\ stats' = IF Cardinality(rows[p]) > 0
                THEN [stats EXCEPT !.alertsResolved = @ + 1]
                ELSE stats
    /\ pc' = [pc EXCEPT ![p] = "idle"]
    /\ req' = [req EXCEPT ![p] = NoRequest]
    /\ rows' = [rows EXCEPT ![p] = {}]
    /\ ret' = Returned("resolveAlert", {})
    /\ sent' = << >>
    /\ UNCHANGED <<now, managerVars, alerts, io, lastBroadcastTimes, subscribers,
                   summaryVars, telemetryVars>>

-----------------------------------------------------------------------------
(* AlertService when a store query rejects or a socket emit throws *)

\* The store fails the INSERT of createAlert (unavailable, timed out): no row
StoreInsertFails(p) ==
    /\ pc[p] = "insert"
    /\ pc' = [pc EXCEPT ![p] = "insert_failed"]
    /\ sent' = << >>
    /\ ret' = NoReturn
    /\ UNCHANGED <<now, managerVars, alerts, activeAlertsCache, stats, req, rows,
                   io, lastBroadcastTimes, subscribers, summaryVars, telemetryVars>>

\* Variant: the creation is counted although the INSERT failed
CreateAlertRejectsCounted(p) ==
    /\ pc[p] = "insert_failed"
    /\ pc' = [pc EXCEPT ![p] = "idle"]
    /\ req' = [req EXCEPT ![p] = NoRequest]
    /\ stats' = [stats EXCEPT !.alertsCreated = @ + 1]
    /\ sent' = << >>
    /\ ret' = Rejected("createAlert")
    /\ UNCHANGED <<now, managerVars, alerts, activeAlertsCache, rows,
                   io, lastBroadcastTimes, subscribers, summaryVars, telemetryVars>>

\* createAlert resumes with the error of its await: nothing after line 125
\* runs and the promise rejects
CreateAlertThrows(p) ==
    /\ pc[p] = "insert_failed"
    /\ pc' = [pc EXCEPT ![p] = "idle"]
    /\ req' = [req EXCEPT ![p] = NoRequest]
    /\ sent' = << >>
    /\ ret' = Rejected("createAlert")
    /\ UNCHANGED <<now, managerVars, alerts, activeAlertsCache, stats, rows,
                   io, lastBroadcastTimes, subscribers, summaryVars>>

\* The rejection reaches a handler that called createAlert on its own
CreateAlertRejects(p) ==
    /\ CreateAlertThrows(p)
    /\ UNCHANGED telemetryVars

\* The store fails the UPDATE of resolveAlert: no row changes
StoreUpdateFails(p) ==
    /\ pc[p] = "update"
    /\ pc' = [pc EXCEPT ![p] = "update_failed"]
    /\ sent' = << >>
    /\ ret' = NoReturn
    /\ UNCHANGED <<now, managerVars, alerts, activeAlertsCache, stats, req, rows,
                   io, lastBroadcastTimes, subscribers, summaryVars, telemetryVars>>

\* resolveAlert resumes with the error of its await: nothing after line 190
\* runs and the promise rejects
ResolveAlertRejects(p) ==
    /\ pc[p] = "update_failed"
    /\ pc' = [pc EXCEPT ![p] = "idle"]
    /\ req' = [req EXCEPT ![p] = NoRequest]
    /\ sent' = << >>
    /\ ret' = Rejected("resolveAlert")
    /\ UNCHANGED <<now, managerVars, alerts, activeAlertsCache, stats, rows,
                   io, lastBroadcastTimes, subscribers, summaryVars, telemetryVars>>

\* createAlert resumes with the inserted row and, in broadcastAlert, the emit
\* to subscriber failing throws: the forEach has no try, so the exception
\* leaves broadcastAlert and createAlert rejects, after the state manager, the
\* cache and the counter were updated
CreateAlertEmitThrows(p, failing) ==
    /\ pc[p] = "inserted"
    /\ io
    /\ failing \in subscribers[req[p].vehicle_id]
    /\ LET alertId == CHOOSE id \in rows[p] : TRUE IN
       /\ ProcessAlert(req[p].vehicle_id, req[p].alert_type,
                       RuleSeverity(req[p].alert_type), now)
       /\ result'.shouldNotify
       /\ activeAlertsCache' =
             SetCachedAlert(req[p].vehicle_id, req[p].alert_type, alertId)
       /\ stats' = [stats EXCEPT !.alertsCreated = @ + 1]
       /\ sent' = EmitUntilThrow(GetSubscribers(req[p].vehicle_id),
                                 "alert_state_update", alertId, failing)
    /\ pc' = [pc EXCEPT ![p] = "idle"]
    /\ req' = [req EXCEPT ![p] = NoRequest]
    /\ rows' = [rows EXCEPT ![p] = {}]
    /\ ret' = Rejected("createAlert")
    /\ UNCHANGED <<now, alerts, io, lastBroadcastTimes, subscribers, summaryVars, telemetryVars>>

-----------------------------------------------------------------------------
(* AlertApiService.getAlertSummary and the summary broadcast *)

\* WITH active_alerts AS (SELECT ... FROM alerts WHERE resolved_at IS NULL)
ActiveAlerts == {id \in DOMAIN alerts : alerts[id].resolved_at = {}}

\* COUNT(DISTINCT vehicle_id) FROM active_alerts WHERE severity = ...
VehiclesWith(severity) ==
    Cardinality({alerts[id].vehicle_id :
                    id \in {a \in ActiveAlerts : alerts[a].severity = severity}})

\* SELECT alert_type, severity, COUNT(*) as cnt ... GROUP BY alert_type, severity
AlertCountGroups ==
    {[alert_type |-> alerts[id].alert_type,
      severity |-> alerts[id].severity,
      count |-> Cardinality({a \in ActiveAlerts :
                                /\ alerts[a].alert_type = alerts[id].alert_type
                                /\ alerts[a].severity = alerts[id].severity})] :
        id \in ActiveAlerts}

\* ORDER BY cnt DESC LIMIT 10: every order the store may answer in (groups of
\* equal count come in any order), cut to the limit
AlertCountsByType ==
    LET n == Cardinality(AlertCountGroups)
        m == IF n < SUMMARY_TYPE_LIMIT THEN n ELSE SUMMARY_TYPE_LIMIT
    IN  {SubSeq(f, 1, m) :
            f \in {g \in [1..n -> AlertCountGroups] :
                      /\ \A i, j \in 1..n : g[i] = g[j] => i = j
                      /\ \A i, j \in 1..n : i < j => g[i].count >= g[j].count}}

\* getAlertSummary(): the summaries it may answer with
GetAlertSummary ==
    IF ActiveAlerts = {}
    THEN {[totalActiveAlerts |-> 0, criticalVehicles |-> 0, warningVehicles |-> 0,
           totalVehiclesWithAlerts |-> 0, alertCountsByType |-> << >>]}
    ELSE {[totalActiveAlerts |-> Cardinality(ActiveAlerts),
           criticalVehicles |-> VehiclesWith("CRITICAL"),
           warningVehicles |-> VehiclesWith("WARNING"),
           totalVehiclesWithAlerts |->
               Cardinality({alerts[id].vehicle_id : id \in ActiveAlerts}),
           alertCountsByType |-> byType] : byType \in AlertCountsByType}

\* The summary interval fires: broadcastAlertSummary up to its await
SummaryTick(k) ==
    /\ timers # {}
    /\ tickPc[k] = "idle"
    /\ tickPc' = [tickPc EXCEPT ![k] = IF io THEN "query" ELSE "idle"]
    /\ sent' = << >>
    /\ ret' = NoReturn
    /\ UNCHANGED <<now, managerVars, serviceVars, io, lastBroadcastTimes,
                   subscribers, telemetryVars, summaryInterval, timers, lastSummary, tickSummary,
                   emittedSummary>>

\* The store answers the query of getAlertSummary
StoreSummary(k) ==
    /\ tickPc[k] = "query"
    /\ \E summary \in GetAlertSummary :
          tickSummary' = [tickSummary EXCEPT ![k] = {summary}]
    /\ tickPc' = [tickPc EXCEPT ![k] = "computed"]
    /\ sent' = << >>
    /\ ret' = NoReturn
    /\ UNCHANGED <<now, managerVars, serviceVars, io, lastBroadcastTimes,
                   subscribers, telemetryVars, summaryInterval, timers, lastSummary, emittedSummary>>

\* The store fails the query of getAlertSummary
StoreSummaryFails(k) ==
    /\ tickPc[k] = "query"
    /\ tickPc' = [tickPc EXCEPT ![k] = "failed"]
    /\ sent' = << >>
    /\ ret' = NoReturn
    /\ UNCHANGED <<now, managerVars, serviceVars, io, lastBroadcastTimes,
                   subscribers, telemetryVars, summaryInterval, timers, lastSummary, tickSummary,
                   emittedSummary>>

\* JSON.stringify(summary) !== JSON.stringify(this.lastSummary)
SummaryChanged(summary) == {summary} # lastSummary

\* broadcastAlertSummary resumes with the summary: compare, remember, io.emit
SummaryTickReturn(k) ==
    /\ tickPc[k] = "computed"
    /\ LET summary == CHOOSE x \in tickSummary[k] : TRUE IN
       IF SummaryChanged(summary)
       THEN /\ lastSummary' = {summary}
            /\ emittedSummary' = {summary}
            /\ sent' = <<[to |-> "*", event |-> "alert_summary", alert_id |-> 0]>>
       ELSE /\ sent' = << >>
            /\ UNCHANGED <<lastSummary, emittedSummary>>
    /\ tickPc' = [tickPc EXCEPT ![k] = "idle"]
    /\ tickSummary' = [tickSummary EXCEPT ![k] = {}]
    /\ ret' = NoReturn
    /\ UNCHANGED <<now, managerVars, serviceVars, io, lastBroadcastTimes,
                   subscribers, telemetryVars, summaryInterval, timers>>

\* broadcastAlertSummary resumes with a changed summary and io.emit throws:
\* lastSummary is already assigned (line 69) when the catch takes the error
SummaryTickEmitThrows(k) ==
    /\ tickPc[k] = "computed"
    /\ LET summary == CHOOSE x \in tickSummary[k] : TRUE IN
       /\ SummaryChanged(summary)
       /\ lastSummary' = {summary}
    /\ sent' = << >>
    /\ tickPc' = [tickPc EXCEPT ![k] = "idle"]
    /\ tickSummary' = [tickSummary EXCEPT ![k] = {}]
    /\ ret' = NoReturn
    /\ UNCHANGED <<now, managerVars, serviceVars, io, lastBroadcastTimes,
                   subscribers, telemetryVars, summaryInterval, timers, emittedSummary>>

\* broadcastAlertSummary resumes with the error of getAlertSummary: the catch
\* logs it
SummaryTickCatch(k) ==
    /\ tickPc[k] = "failed"
    /\ tickPc' = [tickPc EXCEPT ![k] = "idle"]
    /\ sent' = << >>
    /\ ret' = NoReturn
    /\ UNCHANGED <<now, managerVars, serviceVars, io, lastBroadcastTimes,
                   subscribers, telemetryVars, summaryInterval, timers, lastSummary, tickSummary,
                   emittedSummary>>

\* cleanupCache, run by the one-minute timer
CleanupCache ==
    /\ \E k \in DOMAIN activeAlertsCache :
          now - activeAlertsCache[k].createdAt > CACHE_TTL_MS
    /\ activeAlertsCache' =
          [k \in {j \in DOMAIN activeAlertsCache :
                     ~(now - activeAlertsCache[j].createdAt > CACHE_TTL_MS)}
              |-> activeAlertsCache[k]]
    /\ sent' = << >>
    /\ ret' = NoReturn
    /\ UNCHANGED <<now, managerVars, alerts, stats, pc, req, rows,
                   io, lastBroadcastTimes, subscribers, summaryVars, telemetryVars>>

\* Minutes between two steps of the alert service model: more than half the
\* TTL, so that an entry cached one step after its row was inserted outlives
\* the row's 5-minute lookback
Latencies == {3}

\* Time passes: d minutes
Tick(d) ==
    /\ now + d * MinuteMs <= Epoch + MaxMinutes * MinuteMs
    /\ now' = now + d * MinuteMs
    /\ sent' = << >>
    /\ ret' = NoReturn
    /\ UNCHANGED <<managerVars, serviceVars, io, lastBroadcastTimes, subscribers, summaryVars, telemetryVars>>

-----------------------------------------------------------------------------
(* The notification model: alert events arriving at the state manager *)

NotifyTypes == {"high_temperature"}

\* Gaps between two events, in ticks: none, under the throttle, at the throttle,
\* at the quiet period, over the quiet period
Gaps == {0, 1, 2, 30, 31}

InitManager ==
    /\ vehicleAlertStates = << >>
    /\ lastVisualUpdate = << >>
    /\ escalatedVehicles = {}
    /\ result = NoResult
    /\ newlyCritical = {}

InitService ==
    /\ alerts = << >>
    /\ activeAlertsCache = << >>
    /\ stats = [cacheHits |-> 0, cacheMisses |-> 0,
                alertsCreated |-> 0, alertsResolved |-> 0]
    /\ pc = [p \in Handlers |-> "idle"]
    /\ req = [p \in Handlers |-> NoRequest]
    /\ rows = [p \in Handlers |-> {}]

InitBroadcaster ==
    /\ io = FALSE
    /\ lastBroadcastTimes = << >>
    /\ subscribers = [v \in Vehicles |-> {}]
    /\ sent = << >>

InitSummary ==
    /\ ret = NoReturn
    /\ summaryInterval = {}
    /\ timers = {}
    /\ lastSummary = {}
    /\ tickPc = [k \in Ticks |-> "idle"]
    /\ tickSummary = [k \in Ticks |-> {}]
    /\ emittedSummary = {}

NoSample == [vehicle_id |-> "", soc |-> 0, motor_temp |-> 0, temperature |-> 0,
             battery_voltage |-> 0]

\* No ingestTelemetry call is in flight
NoIngest == [pc |-> "idle", sample |-> NoSample, insert |-> "", update |-> ""]

\* evaluate has not been called
NoEvaluation == [status |-> "none", sample |-> NoSample, rule |-> 0]

InitTelemetry ==
    /\ ingest = NoIngest
    /\ evaluation = NoEvaluation
    /\ feed = << >>

InitNotify ==
    /\ now = Epoch
    /\ InitManager
    /\ InitService
    /\ InitBroadcaster
    /\ InitSummary
    /\ InitTelemetry

\* The evaluator hands an alert event to the state manager, d ticks after the
\* previous one
NotifyEvent(vehicleId, alertType, severity, d) ==
    /\ now + d * TickMs <= Epoch + MaxTicks * TickMs
    /\ \A s \in ExistingState(vehicleId, alertType) : s.count < MaxCount
    /\ now' = now + d * TickMs
    /\ ProcessAlert(vehicleId, alertType, severity, now')
    /\ ret' = NoReturn
    /\ UNCHANGED <<serviceVars, broadcasterVars, summaryVars, telemetryVars>>

NextNotify ==
    \E t \in NotifyTypes, s \in Severities, d \in Gaps : NotifyEvent("EV1", t, s, d)

SpecNotify == InitNotify /\ [][NextNotify]_vars

-----------------------------------------------------------------------------
(* The alert service model: handlers interleaving at their store awaits *)

InitAlert ==
    /\ now = Epoch
    /\ InitManager
    /\ InitService
    /\ io = TRUE
    /\ lastBroadcastTimes = << >>
    /\ subscribers = [v \in Vehicles |-> IF v = "EV1" THEN {"s1"} ELSE {}]
    /\ sent = << >>
    /\ InitSummary
    /\ InitTelemetry

NextAlert ==
    \/ \E p \in Handlers, t \in AlertTypes : GetExistingAlertCall(p, "EV1", t)
    \/ \E p \in Handlers : StoreSelect(p)
    \/ \E p \in Handlers : GetExistingAlertReturn(p)
    \/ \E p \in Handlers : StoreInsert(p)
    \/ \E p \in Handlers : CreateAlertReturn(p)
    \/ \E p \in Handlers, t \in AlertTypes : ResolveAlertCall(p, "EV1", t)
    \/ \E p \in Handlers : StoreUpdate(p)
    \/ \E p \in Handlers : ResolveAlertReturn(p)
    \/ CleanupCache
    \/ \E d \in Latencies : Tick(d)

SpecAlert == InitAlert /\ [][NextAlert]_vars

-----------------------------------------------------------------------------
(* The deduplication run: candidates of one key arrive within the 5-minute  *)
(* window and nothing resolves the alert                                    *)

\* Time passes, staying inside the window that opened at start-up
DedupTick(d) ==
    /\ now + d * MinuteMs < Epoch + DEDUP_WINDOW_MS
    /\ Tick(d)

NextDedup ==
    \/ \E p \in Handlers : GetExistingAlertCall(p, "EV1", "low_battery")
    \/ \E p \in Handlers : StoreSelect(p)
    \/ \E p \in Handlers : GetExistingAlertReturn(p)
    \/ \E p \in Handlers : StoreInsert(p)
    \/ \E p \in Handlers : CreateAlertReturn(p)
    \/ \E d \in Latencies : DedupTick(d)

SpecDedup == InitAlert /\ [][NextDedup]_vars

-----------------------------------------------------------------------------
(* The two-key model: handlers of both vehicles interleave; the clock stands *)
(* still                                                                    *)

NextKeys ==
    \/ \E p \in Handlers, v \in Vehicles, t \in AlertTypes :
          GetExistingAlertCall(p, v, t)
    \/ \E p \in Handlers : StoreSelect(p)
    \/ \E p \in Handlers : GetExistingAlertReturn(p)
    \/ \E p \in Handlers : StoreInsert(p)
    \/ \E p \in Handlers : CreateAlertReturn(p)
    \/ \E p \in Handlers, v \in Vehicles, t \in AlertTypes :
          ResolveAlertCall(p, v, t)
    \/ \E p \in Handlers : StoreUpdate(p)
    \/ \E p \in Handlers : ResolveAlertReturn(p)

SpecKeys == InitAlert /\ [][NextKeys]_vars

-----------------------------------------------------------------------------
(* The fault model: handlers of one key, a store that may fail a write and  *)
(* sockets whose emit may throw                                             *)

InitFaults ==
    /\ now = Epoch
    /\ InitManager
    /\ InitService
    /\ io = TRUE
    /\ lastBroadcastTimes = << >>
    /\ subscribers = [v \in Vehicles |-> IF v = "EV1" THEN Sockets ELSE {}]
    /\ sent = << >>
    /\ InitSummary
    /\ InitTelemetry

NextFaults ==
    \/ \E p \in Handlers : GetExistingAlertCall(p, "EV1", "low_battery")
    \/ \E p \in Handlers : StoreSelect(p)
    \/ \E p \in Handlers : GetExistingAlertReturn(p)
    \/ \E p \in Handlers : StoreInsert(p)
    \/ \E p \in Handlers : StoreInsertFails(p)
    \/ \E p \in Handlers : CreateAlertReturn(p)
    \/ \E p \in Handlers, k \in Sockets : CreateAlertEmitThrows(p, k)
    \/ \E p \in Handlers : CreateAlertRejects(p)
    \/ \E p \in Handlers : ResolveAlertCall(p, "EV1", "low_battery")
    \/ \E p \in Handlers : StoreUpdate(p)
    \/ \E p \in Handlers : StoreUpdateFails(p)
    \/ \E p \in Handlers : ResolveAlertReturn(p)
    \/ \E p \in Handlers : ResolveAlertRejects(p)

SpecFaults == InitFaults /\ [][NextFaults]_vars

-----------------------------------------------------------------------------
(* The delivery model: one handler, a changing subscription registry and    *)
(* the telemetry relay                                                      *)

InitDelivery ==
    /\ now = Epoch
    /\ InitManager
    /\ InitService
    /\ InitBroadcaster
    /\ InitSummary
    /\ InitTelemetry

NextDelivery ==
    \/ \E t \in AlertTypes : GetExistingAlertCall(1, "EV1", t)
    \/ StoreSelect(1)
    \/ GetExistingAlertReturn(1)
    \/ StoreInsert(1)
    \/ CreateAlertReturn(1)
    \/ \E t \in AlertTypes : ResolveAlertCall(1, "EV1", t)
    \/ StoreUpdate(1)
    \/ ResolveAlertReturn(1)
    \/ BroadcasterInit
    \/ \E v \in Vehicles : BroadcastTelemetry(v)
    \/ \E v \in Vehicles, k \in Sockets : Subscribe(v, k)
    \/ \E v \in Vehicles, k \in Sockets : Unsubscribe(v, k)
    \/ Tick(MaxMinutes)

SpecDelivery == InitDelivery /\ [][NextDelivery]_vars

-----------------------------------------------------------------------------
(* The summary model: one handler opens and resolves alerts while the        *)
(* callbacks of the summary interval run                                     *)

NextSummary ==
    \/ BroadcasterInit
    \/ GetExistingAlertCall(1, "EV1", "low_battery")
    \/ StoreSelect(1)
    \/ GetExistingAlertReturn(1)
    \/ StoreInsert(1)
    \/ CreateAlertReturn(1)
    \/ ResolveAlertCall(1, "EV1", "low_battery")
    \/ StoreUpdate(1)
    \/ ResolveAlertReturn(1)
    \/ \E k \in Ticks : SummaryTick(k)
    \/ \E k \in Ticks : StoreSummary(k)
    \/ \E k \in Ticks : StoreSummaryFails(k)
    \/ \E k \in Ticks : SummaryTickReturn(k)
    \/ \E k \in Ticks : SummaryTickEmitThrows(k)
    \/ \E k \in Ticks : SummaryTickCatch(k)

SpecSummary == InitDelivery /\ [][NextSummary]_vars

-----------------------------------------------------------------------------
(* The timer model: the summary broadcasts are started, started again and   *)
(* stopped in any order while alerts open and the interval's callbacks run  *)

NextTimers ==
    \/ BroadcasterInit
    \/ StartSummaryBroadcasts
    \/ StopSummaryBroadcasts
    \/ GetExistingAlertCall(1, "EV1", "low_battery")
    \/ StoreSelect(1)
    \/ GetExistingAlertReturn(1)
    \/ StoreInsert(1)
    \/ CreateAlertReturn(1)
    \/ \E k \in Ticks : SummaryTick(k)
    \/ \E k \in Ticks : StoreSummary(k)
    \/ \E k \in Ticks : SummaryTickReturn(k)

SpecTimers == InitDelivery /\ [][NextTimers]_vars

-----------------------------------------------------------------------------
(* The relay model: telemetry samples of both vehicles arrive milliseconds  *)
(* apart while clients subscribe and unsubscribe                            *)

\* Milliseconds between two steps: half the spacing, one under it, exactly it
RelayGaps == {250, 499, 500}

RelayTick(d) ==
    /\ now + d <= Epoch + MaxRelayMs
    /\ now' = now + d
    /\ sent' = << >>
    /\ ret' = NoReturn
    /\ UNCHANGED <<managerVars, serviceVars, io, lastBroadcastTimes, subscribers,
                   summaryVars, telemetryVars>>

NextRelay ==
    \/ BroadcasterInit
    \/ \E v \in Vehicles : BroadcastTelemetry(v)
    \/ \E v \in Vehicles, k \in Sockets : Subscribe(v, k)
    \/ \E v \in Vehicles, k \in Sockets : Unsubscribe(v, k)
    \/ \E d \in RelayGaps : RelayTick(d)

SpecRelay == InitDelivery /\ [][NextRelay]_vars

-----------------------------------------------------------------------------
(* The cadence run: one key receives events of one severity, each at least  *)
(* VISUAL_UPDATE_THROTTLE_MS after the previous one                         *)

CadenceEvent(d) ==
    /\ now + d * TickMs <= Epoch + MaxCadenceTicks * TickMs
    /\ d * TickMs >= VISUAL_UPDATE_THROTTLE_MS
    /\ \A s \in ExistingState("EV1", "low_battery") : s.count < MaxCadenceCount
    /\ now' = now + d * TickMs
    /\ ProcessAlert("EV1", "low_battery", "WARNING", now')
    /\ ret' = NoReturn
    /\ UNCHANGED <<serviceVars, broadcasterVars, summaryVars, telemetryVars>>

NextCadence == \E d \in {2, 3} : CadenceEvent(d)

SpecCadence == InitNotify /\ [][NextCadence]_vars

-----------------------------------------------------------------------------
(* The cache model: alerts of both vehicles are looked up and created while *)
(* the minutes pass and the cache sweep runs; nothing is resolved           *)

NextCache ==
    \/ \E v \in Vehicles, t \in AlertTypes : GetExistingAlertCall(1, v, t)
    \/ StoreSelect(1)
    \/ GetExistingAlertReturn(1)
    \/ StoreInsert(1)
    \/ CreateAlertReturn(1)
    \/ CleanupCache
    \/ Tick(1)

SpecCache == InitAlert /\ [][NextCache]_vars

-----------------------------------------------------------------------------
(* The visual impact run: one key receives events of any severity, seconds  *)
(* or minutes apart, until it has been open for more than five minutes      *)

\* Milliseconds between two events: a second, just under the spike window,
\* the whole duration cap
ImpactGaps == {1000, 59000, 300000}

ImpactEvent(severity, d) ==
    /\ now + d <= Epoch + MaxImpactMs
    /\ \A s \in ExistingState("EV1", "low_battery") : s.count < MaxImpactCount
    /\ now' = now + d
    /\ ProcessAlert("EV1", "low_battery", severity, now')
    /\ ret' = NoReturn
    /\ UNCHANGED <<serviceVars, broadcasterVars, summaryVars, telemetryVars>>

NextImpact == \E s \in Severities, d \in ImpactGaps : ImpactEvent(s, d)

SpecImpact == InitNotify /\ [][NextImpact]_vars

-----------------------------------------------------------------------------
(* Telemetry ingestion and rule evaluation: TelemetryService.ingestTelemetry *)
(* stores a sample, relays it and hands it to the evaluator, which walks the *)
(* alert rules and calls the AlertService for each.  One sample is in the    *)
(* pipeline at a time.                                                       *)

\* The alert rules, in evaluation order
Rules == <<"low_battery", "critical_battery", "high_temperature", "abnormal_voltage">>

\* Variant: critical_battery with the threshold soc < 10
RuleViolatedEarly(alertType, data) ==
    CASE alertType = "low_battery" -> data.soc < 15
      [] alertType = "critical_battery" -> data.soc < 10
      [] alertType = "high_temperature" ->
             data.motor_temp > 85 \/ data.temperature > 85
      [] alertType = "abnormal_voltage" ->
             data.battery_voltage < 45 \/ data.battery_voltage > 85

\* The condition of the rule of alertType on a sample
RuleViolated(alertType, data) ==
    CASE alertType = "low_battery" -> data.soc < 15
      [] alertType = "critical_battery" -> data.soc < 5
      [] alertType = "high_temperature" ->
             data.motor_temp > 85 \/ data.temperature > 85
      [] alertType = "abnormal_voltage" ->
             data.battery_voltage < 45 \/ data.battery_voltage > 85

\* A sample with the given state of charge and temperatures and voltage in
\* their normal ranges
SocSample(vehicleId, soc) ==
    [vehicle_id |-> vehicleId, soc |-> soc, motor_temp |-> 40, temperature |-> 30,
     battery_voltage |-> 60]

\* Variant: the relay and the evaluation wait for the last_seen update only
WritesSucceededUpdateOnly == ingest.update = "ok"

\* await Promise.all([insert, update]) resolves
WritesSucceeded == ingest.insert = "ok" /\ ingest.update = "ok"

\* await Promise.all([insert, update]) rejects
WriteFailed == ingest.insert = "failed" \/ ingest.update = "failed"

\* ingestTelemetry(telemetryData) up to its await: both queries are sent
IngestTelemetryCall ==
    /\ ingest.pc = "idle"
    /\ evaluation.status # "running"
    /\ feed # << >>
    /\ ingest' = [pc |-> "writing", sample |-> Head(feed),
                  insert |-> "pending", update |-> "pending"]
    /\ feed' = Tail(feed)
    /\ sent' = << >>
    /\ ret' = NoReturn
    /\ UNCHANGED <<now, managerVars, serviceVars, io, lastBroadcastTimes,
                   subscribers, summaryVars, evaluation>>

\* The store settles one of the two writes; the other things stay
TelemetryWrite(insert, update) ==
    /\ ingest.pc = "writing"
    /\ ingest' = [ingest EXCEPT !.insert = insert, !.update = update]
    /\ sent' = << >>
    /\ ret' = NoReturn
    /\ UNCHANGED <<now, managerVars, serviceVars, io, lastBroadcastTimes,
                   subscribers, summaryVars, evaluation, feed>>

\* The store runs INSERT INTO telemetry
TelemetryInsert ==
    ingest.insert = "pending" /\ TelemetryWrite("ok", ingest.update)

\* The store fails INSERT INTO telemetry
TelemetryInsertFails ==
    ingest.insert = "pending" /\ TelemetryWrite("failed", ingest.update)

\* The store runs UPDATE vehicles SET last_seen
VehicleUpdate ==
    ingest.update = "pending" /\ TelemetryWrite(ingest.insert, "ok")

\* The store fails UPDATE vehicles SET last_seen
VehicleUpdateFails ==
    ingest.update = "pending" /\ TelemetryWrite(ingest.insert, "failed")

\* ingestTelemetry resumes after both writes: the sample is relayed to the
\* subscribers of its vehicle, evaluate is called without being awaited, and
\* the call returns true
IngestTelemetryReturn ==
    /\ ingest.pc = "writing"
    /\ WritesSucceeded
    /\ RelayTelemetry(ingest.sample.vehicle_id)
    /\ evaluation' = [status |-> "running", sample |-> ingest.sample, rule |-> 1]
    /\ ingest' = NoIngest
    /\ ret' = Returned("ingestTelemetry", {})
    /\ UNCHANGED <<now, managerVars, serviceVars, io, subscribers, summaryVars,
                   feed>>

\* ingestTelemetry resumes with the error of a write: the catch logs it and
\* throws it again
IngestTelemetryRejects ==
    /\ ingest.pc = "writing"
    /\ WriteFailed
    /\ ingest' = NoIngest
    /\ sent' = << >>
    /\ ret' = Rejected("ingestTelemetry")
    /\ UNCHANGED <<now, managerVars, serviceVars, io, lastBroadcastTimes,
                   subscribers, summaryVars, evaluation, feed>>

\* evaluate takes its next rule: a violated rule looks for the open alert
\* (and creates one when there is none), any other rule resolves
EvaluateRule(p) ==
    /\ evaluation.status = "running"
    /\ evaluation.rule <= Len(Rules)
    /\ LET alertType == Rules[evaluation.rule]
           vehicleId == evaluation.sample.vehicle_id
       IN  IF RuleViolated(alertType, evaluation.sample)
           THEN GetExistingAlertStart(p, vehicleId, alertType)
           ELSE ResolveAlertStart(p, vehicleId, alertType)
    /\ evaluation' = [evaluation EXCEPT !.rule = @ + 1]
    /\ UNCHANGED <<ingest, feed>>

\* evaluate returns after its last rule
EvaluateReturn(p) ==
    /\ evaluation.status = "running"
    /\ evaluation.rule > Len(Rules)
    /\ pc[p] = "idle"
    /\ evaluation' = [evaluation EXCEPT !.status = "done"]
    /\ sent' = << >>
    /\ ret' = Returned("evaluate", {})
    /\ UNCHANGED <<now, managerVars, serviceVars, io, lastBroadcastTimes,
                   subscribers, summaryVars, ingest, feed>>

\* createAlert rejects inside evaluate: evaluate rejects, and the catch that
\* ingestTelemetry attached logs the error
EvaluateRejects(p) ==
    /\ evaluation.status = "running"
    /\ CreateAlertThrows(p)
    /\ evaluation' = [evaluation EXCEPT !.status = "failed"]
    /\ UNCHANGED <<ingest, feed>>

\* Time passes between two samples
SampleTick(d) ==
    /\ ingest.pc = "idle"
    /\ evaluation.status # "running"
    /\ DedupTick(d)

-----------------------------------------------------------------------------
(* The battery scenario: EV1 reports the states of charge 20, 12, 11, 9, 4, *)
(* 6, one sample after the other, inside the 5-minute window                *)

ScenarioSocs == <<20, 12, 11, 9, 4, 6>>

InitScenario ==
    /\ now = Epoch
    /\ InitManager
    /\ InitService
    /\ io = TRUE
    /\ lastBroadcastTimes = << >>
    /\ subscribers = [v \in Vehicles |-> IF v = "EV1" THEN {"s1"} ELSE {}]
    /\ sent = << >>
    /\ InitSummary
    /\ ingest = NoIngest
    /\ evaluation = NoEvaluation
    /\ feed = [i \in 1..Len(ScenarioSocs) |-> SocSample("EV1", ScenarioSocs[i])]

NextScenario ==
    \/ IngestTelemetryCall
    \/ TelemetryInsert
    \/ VehicleUpdate
    \/ IngestTelemetryReturn
    \/ EvaluateRule(1)
    \/ StoreSelect(1)
    \/ GetExistingAlertReturn(1)
    \/ StoreInsert(1)
    \/ CreateAlertReturn(1)
    \/ StoreUpdate(1)
    \/ ResolveAlertReturn(1)
    \/ EvaluateReturn(1)
    \/ SampleTick(1)

SpecScenario == InitScenario /\ [][NextScenario]_vars

-----------------------------------------------------------------------------
(* The ingestion model: samples arrive while the store may fail a write of  *)
(* ingestTelemetry or the INSERT of createAlert                             *)

\* The states of charge that arrive: one violating both battery rules, one
\* violating none
IngestSocs == {4, 20}

InitIngest ==
    /\ now = Epoch
    /\ InitManager
    /\ InitService
    /\ io = TRUE
    /\ lastBroadcastTimes = << >>
    /\ subscribers = [v \in Vehicles |-> IF v = "EV1" THEN {"s1"} ELSE {}]
    /\ sent = << >>
    /\ InitSummary
    /\ ingest = NoIngest
    /\ evaluation = NoEvaluation
    /\ feed \in {[i \in 1..MaxSamples |-> SocSample("EV1", f[i])] :
                    f \in [1..MaxSamples -> IngestSocs]}

NextIngest ==
    \/ IngestTelemetryCall
    \/ TelemetryInsert
    \/ TelemetryInsertFails
    \/ VehicleUpdate
    \/ VehicleUpdateFails
    \/ IngestTelemetryReturn
    \/ IngestTelemetryRejects
    \/ EvaluateRule(1)
    \/ StoreSelect(1)
    \/ GetExistingAlertReturn(1)
    \/ StoreInsert(1)
    \/ StoreInsertFails(1)
    \/ CreateAlertReturn(1)
    \/ EvaluateRejects(1)
    \/ StoreUpdate(1)
    \/ ResolveAlertReturn(1)
    \/ EvaluateReturn(1)
    \/ SampleTick(1)

SpecIngest == InitIngest /\ [][NextIngest]_vars

-----------------------------------------------------------------------------
(* The escalation model: alerts of one vehicle open and resolve, the UI     *)
(* asks which vehicles are newly critical, and the state sweep runs, over    *)
(* more than the expiry time                                                 *)

\* The alert lists isNewlyCriticalVehicle is called with
AlertLists ==
    LET shown == {[severity |-> s, resolved_at |-> r] :
                     s \in {"WARNING", "CRITICAL"}, r \in {{}, {Epoch}}}
    IN  {<< >>} \cup {<<a>> : a \in shown}
        \cup {<<[severity |-> "WARNING", resolved_at |-> {}], a>> : a \in shown}

SweepTick ==
    /\ now + HalfHourMs <= Epoch + MaxHalfHours * HalfHourMs
    /\ now' = now + HalfHourMs
    /\ sent' = << >>
    /\ ret' = NoReturn
    /\ UNCHANGED <<managerVars, serviceVars, io, lastBroadcastTimes, subscribers,
                   summaryVars, telemetryVars>>

NextEscalation ==
    \/ \E t \in AlertTypes : GetExistingAlertCall(1, "EV1", t)
    \/ StoreSelect(1)
    \/ GetExistingAlertReturn(1)
    \/ StoreInsert(1)
    \/ CreateAlertReturn(1)
    \/ \E t \in AlertTypes : ResolveAlertCall(1, "EV1", t)
    \/ StoreUpdate(1)
    \/ ResolveAlertReturn(1)
    \/ \E v \in Vehicles, l \in AlertLists : IsNewlyCriticalVehicle(v, l)
    \/ Cleanup
    \/ SweepTick

SpecEscalation == InitAlert /\ [][NextEscalation]_vars

-----------------------------------------------------------------------------
(* Properties of the notification gate *)

\* A step in which processAlert ran: it always stores a new state for its key
Processed == vehicleAlertStates' # vehicleAlertStates

\* Time between the event just processed and the last notification of its key
\* before the event (the pre-state of the step)
SinceLastNotified ==
    result'.timestamp - LastVisualUpdateOf(result'.vehicle_id, result'.alert_type)

\* C5 as stated: every event classified new_alert or severity_escalation
\* returns shouldNotify = TRUE.
C5_EscalationAlwaysNotifies ==
    result.stateChange \in {"new_alert", "severity_escalation"}
        => result.shouldNotify

\* C5 amended: every event classified new_alert or severity_escalation that
\* arrives at least 2000 ms after the last notification of its key returns
\* shouldNotify = TRUE.
C5_EscalationNotifiesAfterCooldown ==
    [][(/\ Processed
        /\ result'.stateChange \in {"new_alert", "severity_escalation"}
        /\ SinceLastNotified >= VISUAL_UPDATE_THROTTLE_MS)
       => result'.shouldNotify]_vars

C5_Witness ==
    /\ result.stateChange = "severity_escalation"
    /\ result.severity = "CRITICAL"
    /\ result.shouldNotify
    /\ result.alertCount > 1

\* C6: an event arriving less than 2000 ms after the last notification of its
\* key is suppressed whatever its transition and leaves the notification time
\* alone; a notified event records its own time as the last notification, so
\* two notified events of a key are never less than 2000 ms apart.
C6_HardCooldown ==
    [][Processed =>
        /\ (/\ StateKey(result'.vehicle_id, result'.alert_type)
                   \in DOMAIN lastVisualUpdate
            /\ SinceLastNotified < VISUAL_UPDATE_THROTTLE_MS)
           => (~result'.shouldNotify /\ lastVisualUpdate' = lastVisualUpdate)
        /\ result'.shouldNotify
           => /\ lastVisualUpdate'[StateKey(result'.vehicle_id, result'.alert_type)]
                    = result'.timestamp
              /\ SinceLastNotified >= VISUAL_UPDATE_THROTTLE_MS]_vars

C6_Witness ==
    /\ result.stateChange = "severity_escalation"
    /\ result.severity = "CRITICAL"
    /\ ~result.shouldNotify
    /\ result.timestamp > LastVisualUpdateOf(result.vehicle_id, result.alert_type)
    /\ result.timestamp - LastVisualUpdateOf(result.vehicle_id, result.alert_type)
           < VISUAL_UPDATE_THROTTLE_MS

\* C7 as stated: in a run of unchanged severity with events at least 2 s apart,
\* the events after which count is 10, 20, 30 are classified persistent_issue
\* and notified, and occurrences 11 to 19 are never classified persistent_issue.
C7_PersistentCadence ==
    /\ result.alertCount \in {10, 20, 30}
          => (result.stateChange = "persistent_issue" /\ result.shouldNotify)
    /\ result.alertCount \in 11..19
          => result.stateChange # "persistent_issue"

\* C8: an event classified repeated_alert is notified only if more than
\* 30000 ms have passed since the last notification of its key, so within
\* any 30 s after a notification no repeated_alert notifies again.
C8_RepeatedNeedsQuietPeriod ==
    [][(/\ Processed
        /\ result'.stateChange = "repeated_alert"
        /\ result'.shouldNotify)
       => /\ StateKey(result'.vehicle_id, result'.alert_type)
                \in DOMAIN lastVisualUpdate
          /\ SinceLastNotified > QUIET_PERIOD_MS]_vars

C8_Witness ==
    /\ result.stateChange = "repeated_alert"
    /\ result.shouldNotify

\* C19: an event classified severity_deescalation returns shouldNotify = FALSE
\* however long after the last notification it arrives, and leaves the key's
\* lastVisualUpdate and last_notified_severity as they were, while the state
\* of the key takes the lower severity, count + 1 and the event's time as
\* last_updated.
C19_DeescalationSilent ==
    [][(Processed /\ result'.stateChange = "severity_deescalation")
       => LET old == CHOOSE st \in ExistingState(result'.vehicle_id,
                                                 result'.alert_type) : TRUE
              new == vehicleAlertStates'[result'.vehicle_id][result'.alert_type]
          IN  /\ ~result'.shouldNotify
              /\ lastVisualUpdate' = lastVisualUpdate
              /\ new.last_notified_severity = old.last_notified_severity
              /\ new.severity = result'.severity
              /\ SeverityRank(new.severity) < SeverityRank(old.severity)
              /\ new.count = old.count + 1
              /\ new.last_updated = result'.timestamp
              /\ result'.alertCount = new.count]_vars

\* A de-escalation from CRITICAL that arrived more than the quiet period after
\* the key's last notification
C19_Witness ==
    /\ result.stateChange = "severity_deescalation"
    /\ result.severity = "INFO"
    /\ result.timestamp - LastVisualUpdateOf(result.vehicle_id, result.alert_type)
           > QUIET_PERIOD_MS
    /\ vehicleAlertStates[result.vehicle_id][result.alert_type].last_notified_severity
           = {"CRITICAL"}

\* C24: processAlert classifies an event against the severity the preceding
\* event of its key stored, not the severity last notified: new_alert exactly
\* when the key has no state, severity_escalation exactly when the new rank is
\* higher, severity_deescalation exactly when it is lower, persistent_issue or
\* repeated_alert exactly when it is equal; the category is one of the five
C24_ClassifiedAgainstStoredSeverity ==
    [][Processed
       => LET existing == ExistingState(result'.vehicle_id, result'.alert_type)
              old == CHOOSE st \in existing : TRUE
              newRank == SeverityRank(result'.severity)
              change == result'.stateChange
          IN  /\ change \in {"new_alert", "severity_escalation",
                             "severity_deescalation", "persistent_issue",
                             "repeated_alert"}
              /\ change = "new_alert" <=> existing = {}
              /\ existing # {}
                 => /\ change = "severity_escalation"
                       <=> newRank > SeverityRank(old.severity)
                    /\ change = "severity_deescalation"
                       <=> newRank < SeverityRank(old.severity)
                    /\ change \in {"persistent_issue", "repeated_alert"}
                       <=> newRank = SeverityRank(old.severity)]_vars

\* A WARNING event classified severity_deescalation after a CRITICAL one that
\* was not notified: the severity last notified is still WARNING
C24_Witness ==
    /\ result.stateChange = "severity_deescalation"
    /\ result.severity = "WARNING"
    /\ vehicleAlertStates[result.vehicle_id][result.alert_type].last_notified_severity
           = {"WARNING"}
    /\ vehicleAlertStates[result.vehicle_id][result.alert_type].count = 3

-----------------------------------------------------------------------------
(* Properties of the visual impact *)

\* C23: the visualImpact of an event follows from the state of its key and
\* the transition: badge escalation, new or persistent for
\* severity_escalation, new_alert or persistent_issue and existing otherwise;
\* trend spiking if count > 5 and the key has been open under a minute, else
\* persistent if count > 10, else lingering if open over 5 minutes, else
\* stable; colorIntensity the severity's base plus 0.4 reached linearly over
\* 5 minutes, clamped to 1.0, so between the base and 1.0
C23_VisualImpact ==
    result # NoResult
    => LET state == vehicleAlertStates[result.vehicle_id][result.alert_type]
           open == result.timestamp - state.first_seen
           impact == result.visualImpact
           base == CASE state.severity = "INFO" -> (3 * IntensityScale) \div 10
                     [] state.severity = "WARNING" -> (6 * IntensityScale) \div 10
                     [] state.severity = "CRITICAL" -> IntensityScale
           perMs == ((4 * IntensityScale) \div 10) \div DURATION_CAP_MS
           bonus == IF open < DURATION_CAP_MS THEN open * perMs
                    ELSE (4 * IntensityScale) \div 10
       IN  /\ impact.badgeType =
                 CASE result.stateChange = "severity_escalation" -> "escalation"
                   [] result.stateChange = "new_alert" -> "new"
                   [] result.stateChange = "persistent_issue" -> "persistent"
                   [] OTHER -> "existing"
           /\ impact.trend =
                 IF state.count > 5 /\ open < 60000 THEN "spiking"
                 ELSE IF state.count > 10 THEN "persistent"
                 ELSE IF open > 300000 THEN "lingering"
                 ELSE "stable"
           /\ impact.colorIntensity =
                 IF base + bonus < IntensityScale THEN base + bonus
                 ELSE IntensityScale
           /\ impact.colorIntensity <= IntensityScale
           /\ impact.colorIntensity >= base

\* The eleventh event of a key within a minute, classified persistent_issue:
\* the trend is spiking, not persistent, and the badge persistent
C23_Witness ==
    /\ result.alertCount = 11
    /\ result.stateChange = "persistent_issue"
    /\ result.visualImpact.trend = "spiking"
    /\ result.visualImpact.badgeType = "persistent"
    /\ result.visualImpact.colorIntensity > (6 * IntensityScale) \div 10
    /\ result.visualImpact.colorIntensity < IntensityScale

-----------------------------------------------------------------------------
(* Properties of the alert service *)

AlertsOf(vehicleId, alertType) ==
    {id \in DOMAIN alerts : /\ alerts[id].vehicle_id = vehicleId
                            /\ alerts[id].alert_type = alertType}

\* C1: candidates of one key arriving within 5 minutes, each handled as
\* getExistingAlert then createAlert when nothing is returned, with no
\* resolveAlert, insert exactly one alert row under every interleaving.
C1_ExactlyOneRow ==
    /\ Cardinality(AlertsOf("EV1", "low_battery")) <= 1
    /\ (/\ \A p \in Handlers : pc[p] = "idle"
        /\ stats.cacheHits + stats.cacheMisses > 0)
       => Cardinality(AlertsOf("EV1", "low_battery")) = 1

\* C2: in every reachable state the store holds at most one alert row with
\* resolved_at NULL per (vehicle_id, alert_type).
C2_AtMostOneUnresolved ==
    \A v \in Vehicles, t \in AlertTypes : Cardinality(Unresolved(v, t)) <= 1

\* C3: whenever getExistingAlert answers from the cache, the alert_id it
\* returns is one the store lookup for the key would return at that moment.
C3_CacheHitMatchesStore ==
    [][\A p \in Handlers, v \in Vehicles, t \in AlertTypes :
          (GetExistingAlertCall(p, v, t) /\ CacheHit(v, t))
          => activeAlertsCache[GetCacheKey(v, t)].alertId \in FindUnresolved(v, t)
      ]_vars

\* C4: the resolution check of a sample that no longer violates the rule
\* resolves the open alert: the UPDATE leaves every row of the key with
\* resolved_at set, and when resolveAlert returns those rows are resolved and
\* the cache has no entry for the key.
C4_ResolutionResolves ==
    [][\A p \in Handlers :
          /\ StoreUpdate(p)
             => \A id \in AlertsOf(req[p].vehicle_id, req[p].alert_type) :
                   alerts'[id].resolved_at # {}
          /\ ResolveAlertReturn(p)
             => /\ GetCacheKey(req[p].vehicle_id, req[p].alert_type)
                      \notin DOMAIN activeAlertsCache'
                /\ \A id \in rows[p] : alerts'[id].resolved_at # {}
      ]_vars

C4_Witness ==
    /\ stats.alertsResolved > 0
    /\ \A p \in Handlers : pc[p] = "idle"
    /\ AlertsOf("EV1", "low_battery") # {}
    /\ Unresolved("EV1", "low_battery") = {}
    /\ GetCacheKey("EV1", "low_battery") \notin DOMAIN activeAlertsCache

\* C20 as stated: a getExistingAlert call increments exactly one of cacheHits and
\* cacheMisses; on a miss the store is queried and answers with an unresolved
\* row of the key created within the last 5 minutes when there is one; the
\* call then returns that row and leaves the cache holding its alert_id for
\* the key, or, the store having found none, returns nothing and leaves the
\* cache without an entry for the key.
C20_LookupSyncsCache ==
    [][\A p \in Handlers :
          /\ \A v \in Vehicles, t \in AlertTypes :
                GetExistingAlertCall(p, v, t)
                => /\ stats'.cacheHits + stats'.cacheMisses
                         = stats.cacheHits + stats.cacheMisses + 1
                   /\ stats'.cacheHits \in {stats.cacheHits, stats.cacheHits + 1}
                   /\ stats'.cacheHits = stats.cacheHits => pc'[p] = "select"
          /\ StoreSelect(p)
             => LET found == FindUnresolved(req[p].vehicle_id, req[p].alert_type)
                IN  /\ rows'[p] \subseteq found
                    /\ found # {} => rows'[p] # {}
          /\ GetExistingAlertReturn(p)
             => LET key == GetCacheKey(req[p].vehicle_id, req[p].alert_type) IN
                /\ ret' = Returned("getExistingAlert", rows[p])
                /\ IF rows[p] # {}
                   THEN /\ key \in DOMAIN activeAlertsCache'
                        /\ activeAlertsCache'[key].alertId \in rows[p]
                   ELSE key \notin DOMAIN activeAlertsCache'
      ]_vars

\* C20 amended: a getExistingAlert call increments exactly one of cacheHits
\* and cacheMisses; a miss leaves the cache without an entry for the key and
\* queries the store, which answers with an unresolved row of the key created
\* within the last 5 minutes when there is one; the call then returns that
\* row and leaves the cache holding its alert_id for the key, or, the store
\* having found none, returns nothing and writes nothing to the cache.
C20_LookupWritesOnlyWhatItFound ==
    [][\A p \in Handlers :
          /\ \A v \in Vehicles, t \in AlertTypes :
                GetExistingAlertCall(p, v, t)
                => /\ stats'.cacheHits + stats'.cacheMisses
                         = stats.cacheHits + stats.cacheMisses + 1
                   /\ stats'.cacheHits \in {stats.cacheHits, stats.cacheHits + 1}
                   /\ stats'.cacheHits = stats.cacheHits
                      => /\ pc'[p] = "select"
                         /\ GetCacheKey(v, t) \notin DOMAIN activeAlertsCache'
          /\ StoreSelect(p)
             => LET found == FindUnresolved(req[p].vehicle_id, req[p].alert_type)
                IN  /\ rows'[p] \subseteq found
                    /\ found # {} => rows'[p] # {}
          /\ GetExistingAlertReturn(p)
             => LET key == GetCacheKey(req[p].vehicle_id, req[p].alert_type) IN
                /\ ret' = Returned("getExistingAlert", rows[p])
                /\ IF rows[p] # {}
                   THEN /\ key \in DOMAIN activeAlertsCache'
                        /\ activeAlertsCache'[key].alertId \in rows[p]
                   ELSE activeAlertsCache' = activeAlertsCache
      ]_vars

\* A getExistingAlert call that missed the cache has returned the row the
\* store found and cached it
C20_Witness ==
    /\ ret = Returned("getExistingAlert", {1})
    /\ stats.cacheHits = 0
    /\ stats.cacheMisses > 0
    /\ GetCacheKey("EV1", "low_battery") \in DOMAIN activeAlertsCache
    /\ activeAlertsCache[GetCacheKey("EV1", "low_battery")].alertId = 1
    /\ 1 \in Unresolved("EV1", "low_battery")

\* C11: every alert row createAlert creates while no other unresolved row of
\* its key exists is sent as alert_state_update to every subscriber of the
\* vehicle in the step in which createAlert returns, whatever notifications
\* the key had before.
C11_EveryCreationBroadcast ==
    [][\A p \in Handlers :
          (/\ CreateAlertReturn(p)
           /\ io
           /\ Unresolved(req[p].vehicle_id, req[p].alert_type) = rows[p])
          => \A k \in subscribers[req[p].vehicle_id] :
                \E i \in 1..Len(sent') :
                    sent'[i] = [to |-> k, event |-> "alert_state_update",
                                alert_id |-> CHOOSE id \in rows[p] : TRUE]
      ]_vars

\* C12: when resolveAlert resumes after its UPDATE succeeded, the cache entry
\* of its key is removed whether the UPDATE changed rows or not, alertsResolved
\* grows by 1 if at least one row was changed and by 0 otherwise, the other
\* counters stay, and the cache entries of every other key are left as they
\* were.
C12_ResolveClearsItsKeyOnly ==
    [][\A p \in Handlers :
          ResolveAlertReturn(p)
          => LET key == GetCacheKey(req[p].vehicle_id, req[p].alert_type) IN
             /\ key \notin DOMAIN activeAlertsCache'
             /\ stats' = [stats EXCEPT !.alertsResolved =
                              @ + (IF rows[p] # {} THEN 1 ELSE 0)]
             /\ \A k \in DOMAIN activeAlertsCache \ {key} :
                   /\ k \in DOMAIN activeAlertsCache'
                   /\ activeAlertsCache'[k] = activeAlertsCache[k]
             /\ DOMAIN activeAlertsCache' \subseteq DOMAIN activeAlertsCache
      ]_vars

\* resolveAlert is about to resume from an UPDATE that changed no row while
\* the cache holds an entry for its key and one for another key
C12_Witness ==
    \E p \in Handlers :
        /\ pc[p] = "updated"
        /\ rows[p] = {}
        /\ GetCacheKey(req[p].vehicle_id, req[p].alert_type)
               \in DOMAIN activeAlertsCache
        /\ DOMAIN activeAlertsCache
               # {GetCacheKey(req[p].vehicle_id, req[p].alert_type)}

-----------------------------------------------------------------------------
(* Properties of the alert service under faults *)

\* C13: when createAlert calls of one key race, the INSERT that reaches the
\* store while an unresolved row of the key exists adds no row, and the call
\* it belongs to ends without rejecting, without counting a creation and
\* without emitting.
C13_RacedCreateAbsorbed ==
    [][\A p \in Handlers :
          LET raced == \E id \in Unresolved(req[p].vehicle_id, req[p].alert_type) :
                          id \notin rows[p]
          IN  /\ (pc[p] = "insert" /\ pc'[p] # "insert" /\ raced)
                 => alerts' = alerts
              /\ (pc[p] \in {"inserted", "insert_failed"} /\ pc'[p] = "idle" /\ raced)
                 => /\ ret'.status # "rejected"
                    /\ stats'.alertsCreated = stats.alertsCreated
                    /\ sent' = << >>
      ]_vars

\* C14: if the emit of alert_state_update to one subscriber throws, every
\* other subscriber of the vehicle is still sent the event and createAlert
\* returns the created alert.
C14_EmitFailureIsolated ==
    [][\A p \in Handlers, k \in Sockets :
          CreateAlertEmitThrows(p, k)
          => /\ \A j \in subscribers[req[p].vehicle_id] \ {k} :
                   \E i \in 1..Len(sent') :
                       /\ sent'[i].to = j
                       /\ sent'[i].event = "alert_state_update"
             /\ ret' = Returned("createAlert", rows[p])
      ]_vars

\* C15: when the store fails the INSERT of createAlert or the UPDATE of
\* resolveAlert, the call sends no further query and rejects, and neither the
\* failing query nor the rejection changes the table, the cache, the
\* counters, the notification states or lastVisualUpdate, or emits anything.
C15_StoreFailureSurfaces ==
    [][\A p \in Handlers :
          /\ (pc[p] \in {"insert", "update"}
                 /\ pc'[p] \in {"insert_failed", "update_failed"})
             => /\ UNCHANGED <<alerts, activeAlertsCache, stats,
                               vehicleAlertStates, lastVisualUpdate>>
                /\ sent' = << >>
          /\ (pc[p] \in {"insert_failed", "update_failed"} /\ pc'[p] # pc[p])
             => /\ pc'[p] = "idle"
                /\ ret' = Rejected(req[p].op)
                /\ UNCHANGED <<alerts, activeAlertsCache, stats,
                               vehicleAlertStates, lastVisualUpdate>>
                /\ sent' = << >>
      ]_vars

\* resolveAlert has rejected while the alert it was to resolve is open and
\* cached, after a creation that was counted
C15_Witness ==
    /\ ret = Rejected("resolveAlert")
    /\ Unresolved("EV1", "low_battery") # {}
    /\ GetCacheKey("EV1", "low_battery") \in DOMAIN activeAlertsCache
    /\ stats.alertsCreated = 1
    /\ stats.alertsResolved = 0

-----------------------------------------------------------------------------
(* Properties of the summary broadcast *)

\* C16: a callback of the summary interval emits at most one alert_summary,
\* and only one whose data differs from lastSummary; lastSummary always equals
\* the data of the alert_summary emitted last, so the data of two
\* alert_summary events emitted one after the other differ.
C16_SummaryOnlyOnChange ==
    /\ [](lastSummary = emittedSummary)
    /\ [][(\E i \in 1..Len(sent') : sent'[i].event = "alert_summary")
          => /\ Len(sent') = 1
             /\ emittedSummary' # lastSummary
             /\ emittedSummary' # emittedSummary]_vars

\* C17: a callback whose getAlertSummary or io.emit fails ends inside
\* broadcastAlertSummary with the interval still armed, and every later
\* callback whose summary differs from the data of the alert_summary emitted
\* last emits it.
C17_SummaryFailureRecovers ==
    [][\A k \in Ticks :
          /\ (SummaryTickCatch(k) \/ SummaryTickEmitThrows(k))
             => (timers' # {} /\ tickPc'[k] = "idle")
          /\ (SummaryTickReturn(k) /\ tickSummary[k] # emittedSummary)
             => /\ Len(sent') = 1
                /\ sent'[1].event = "alert_summary"
                /\ emittedSummary' = tickSummary[k]
      ]_vars

-----------------------------------------------------------------------------
(* Properties of the delivery *)

C10_AlertBypassesThrottle ==
    [][\A p \in Handlers :
          (CreateAlertReturn(p) /\ result'.shouldNotify /\ io)
          => /\ \A k \in subscribers[req[p].vehicle_id] :
                   \E i \in 1..Len(sent') :
                       sent'[i] = [to |-> k, event |-> "alert_state_update",
                                   alert_id |-> CHOOSE id \in rows[p] : TRUE]
             /\ lastBroadcastTimes' = lastBroadcastTimes
      ]_vars

C10_Witness ==
    /\ Len(sent) > 0
    /\ sent[1].event = "alert_state_update"
    /\ alerts[sent[1].alert_id].vehicle_id \in DOMAIN lastBroadcastTimes
    /\ now - lastBroadcastTimes[alerts[sent[1].alert_id].vehicle_id] < THROTTLE_MS

-----------------------------------------------------------------------------
(* Properties of the escalation bookkeeping *)

\* C21: a vehicle in the EscalationSet stays in it across every operation
\* (processAlert, isNewlyCriticalVehicle, resolveAlert, the state sweep): no
\* step takes a vehicle out of escalatedVehicles
C21_EscalationNeverExpires ==
    [][escalatedVehicles \subseteq escalatedVehicles']_vars

\* C25: isNewlyCriticalVehicle(v, alerts) returns true exactly when alerts
\* holds an unresolved CRITICAL alert and v is not in the EscalationSet, and
\* then adds v; in every other case it returns false and leaves the set as it
\* was, so a vehicle in the set is never reported again and a vehicle without
\* unresolved CRITICAL alert is never added
C25_NewlyCriticalOnce ==
    [][\A v \in Vehicles, l \in AlertLists :
          IsNewlyCriticalVehicle(v, l)
          => LET critical == \E i \in 1..Len(l) :
                                l[i].severity = "CRITICAL" /\ l[i].resolved_at = {}
             IN  /\ newlyCritical' = {critical /\ v \notin escalatedVehicles}
                 /\ (v \in escalatedVehicles => newlyCritical' = {FALSE})
                 /\ escalatedVehicles' =
                       IF critical THEN escalatedVehicles \cup {v}
                       ELSE escalatedVehicles]_vars

\* EV1, which has notification state, is the one vehicle in the set, and the
\* call made last answered false
C25_Witness ==
    /\ newlyCritical = {FALSE}
    /\ escalatedVehicles = {"EV1"}
    /\ "EV2" \notin DOMAIN vehicleAlertStates
    /\ "EV1" \in DOMAIN vehicleAlertStates

-----------------------------------------------------------------------------
(* Properties of the battery scenario and of the ingestion *)

\* The six samples have been ingested and evaluated
ScenarioDone ==
    feed = << >> /\ ingest.pc = "idle" /\ evaluation.status = "done"

\* The step resolves the row id of the alerts table
ResolvedInStep(id) ==
    alerts[id].resolved_at = {} /\ alerts'[id].resolved_at # {}

\* The step inserts a row of the given type and severity while the sample with
\* the given state of charge is evaluated
CreatedAt(soc, alertType, severity) ==
    /\ evaluation.sample.soc = soc
    /\ alerts'[Len(alerts')].alert_type = alertType
    /\ alerts'[Len(alerts')].severity = severity

RelayedInStep == \E i \in 1..Len(sent') : sent'[i].event = "telemetry_update"

\* The step calls evaluate
EvaluationTriggered == evaluation'.status = "running" /\ evaluation.status # "running"

-----------------------------------------------------------------------------
(* Properties of the cache expiry *)

\* The age of the cache entry of a key
CacheAge(key) == now - activeAlertsCache[key].createdAt

\* C26: getCachedAlert never answers with an entry that is 5 minutes old or
\* older: it deletes the entry and counts a miss; a cleanupCache run leaves no
\* entry older than the TTL and keeps every entry younger than the TTL as it is
C26_CacheExpiry ==
    [][/\ \A v \in Vehicles, t \in AlertTypes :
             GetExistingAlertCall(1, v, t)
             => LET key == GetCacheKey(v, t) IN
                /\ (key \in DOMAIN activeAlertsCache /\ CacheAge(key) >= 300000)
                   => /\ key \notin DOMAIN activeAlertsCache'
                      /\ stats'.cacheMisses = stats.cacheMisses + 1
                      /\ stats'.cacheHits = stats.cacheHits
                      /\ ret'.op # "getExistingAlert"
                /\ ret'.op = "getExistingAlert"
                   => /\ key \in DOMAIN activeAlertsCache
                      /\ CacheAge(key) < 300000
                      /\ ret'.value = {activeAlertsCache[key].alertId}
       /\ CleanupCache
          => \A key \in DOMAIN activeAlertsCache :
                /\ CacheAge(key) > 300000 => key \notin DOMAIN activeAlertsCache'
                /\ CacheAge(key) < 300000
                   => /\ key \in DOMAIN activeAlertsCache'
                      /\ activeAlertsCache'[key] = activeAlertsCache[key]]_vars

\* The alert of EV1 was cached at start-up and looked up exactly 5 minutes
\* later: the entry is gone, the lookup counted as a miss and went to the store
C26_Witness ==
    /\ now = Epoch + 300000
    /\ Len(alerts) = 1
    /\ alerts[1].created_at = Epoch
    /\ stats.cacheMisses = 2
    /\ stats.cacheHits = 0
    /\ pc[1] = "select"
    /\ req[1].vehicle_id = "EV1"
    /\ activeAlertsCache = << >>

-----------------------------------------------------------------------------
(* Properties of resolution among overlapping calls *)

\* C28: once overlapping createAlert, getExistingAlert and resolveAlert calls
\* of a key have all completed, the cache holds no entry for the key whose
\* alert is resolved in the store: no late cache write brings a resolved
\* alert back
C28_NoResurrection ==
    (\A p \in Handlers : pc[p] = "idle")
    => \A key \in DOMAIN activeAlertsCache :
          alerts[activeAlertsCache[key].alertId].resolved_at = {}

\* C29: resolveAlert changes only rows of its key in the store, the cache
\* entry of its key and alertsResolved; the notification states,
\* lastVisualUpdate and the EscalationSet stay as they are, so an alert created
\* again for the key while its state has not been swept is not classified
\* new_alert and its count goes on from the count before the resolution
C29_ResolveLeavesNotificationState ==
    [][/\ \A v \in Vehicles, t \in AlertTypes :
             (ResolveAlertCall(1, v, t)
                 \/ (req[1].vehicle_id = v /\ req[1].alert_type = t
                        /\ (StoreUpdate(1) \/ ResolveAlertReturn(1))))
             => /\ UNCHANGED <<vehicleAlertStates, lastVisualUpdate,
                              escalatedVehicles, result>>
                /\ stats'.cacheHits = stats.cacheHits
                /\ stats'.cacheMisses = stats.cacheMisses
                /\ stats'.alertsCreated = stats.alertsCreated
                /\ \A key \in (DOMAIN activeAlertsCache \cup DOMAIN activeAlertsCache')
                                 \ {GetCacheKey(v, t)} :
                      /\ key \in DOMAIN activeAlertsCache
                      /\ key \in DOMAIN activeAlertsCache'
                      /\ activeAlertsCache'[key] = activeAlertsCache[key]
                /\ Len(alerts') = Len(alerts)
                /\ \A id \in DOMAIN alerts :
                      alerts'[id] # alerts[id]
                      => /\ alerts[id].vehicle_id = v
                         /\ alerts[id].alert_type = t
                         /\ alerts'[id] = [alerts[id] EXCEPT !.resolved_at = {now}]
       /\ (CreateAlertReturn(1)
              /\ ExistingState(req[1].vehicle_id, req[1].alert_type) # {})
          => LET old == CHOOSE st \in ExistingState(req[1].vehicle_id,
                                                    req[1].alert_type) : TRUE
             IN  /\ result'.stateChange # "new_alert"
                 /\ result'.alertCount = old.count + 1
                 /\ vehicleAlertStates'[req[1].vehicle_id][req[1].alert_type].first_seen
                       = old.first_seen]_vars

\* The alert of EV1 was resolved and, half an hour later, created again: the
\* second creation is the key's second occurrence, a repeated_alert, while EV1
\* is still in the EscalationSet
C29_Witness ==
    /\ Len(alerts) = 2
    /\ alerts[1].resolved_at # {}
    /\ alerts[2].resolved_at = {}
    /\ stats.alertsResolved = 1
    /\ ret = Returned("createAlert", {2})
    /\ result.stateChange = "repeated_alert"
    /\ result.alertCount = 2
    /\ result.timestamp = Epoch + HalfHourMs
    /\ escalatedVehicles = {"EV1"}

-----------------------------------------------------------------------------
(* Properties of the summary interval timer *)

\* C30: however often init and startSummaryBroadcasts are called, at most one
\* summary interval is armed, and it is the one whose handle is held; after
\* stopSummaryBroadcasts none is armed, and a stop with none armed changes
\* nothing
C30_AtMostOneSummaryTimer ==
    /\ [](Cardinality(timers) <= 1 /\ timers = summaryInterval)
    /\ [][/\ (BroadcasterInit \/ StartSummaryBroadcasts)
             => /\ Cardinality(timers') = 1
                /\ timers' \cap timers = {}
          /\ StopSummaryBroadcasts
             => /\ timers' = {}
                /\ summaryInterval' = {}
                /\ timers = {}
                   => UNCHANGED <<now, managerVars, serviceVars, io,
                                  lastBroadcastTimes, subscribers, summaryVars,
                                  telemetryVars>>]_vars

\* The broadcasts were started, a callback of the interval is waiting for the
\* store, and the broadcasts have just been stopped: no timer is armed
C30_Witness ==
    /\ io
    /\ ret = Returned("stopSummaryBroadcasts", {})
    /\ timers = {}
    /\ summaryInterval = {}
    /\ \E k \in Ticks : tickPc[k] = "query"

====
